---- MODULE Spec2Model ----
(***************************************************************************)
(* GridRecall persistence layer: the statistics aggregator (gameStats.ts   *)
(* and pwaStats.ts), the flat (localStorage) and structured (IndexedDB)    *)
(* stores, and the UnifiedStatsManager facade.                             *)
(*                                                                         *)
(* The specifications of the module:                                       *)
(*   SpecAgg  the pure aggregator applied to a stream of graded answers;   *)
(*   Spec     the facade operations on the two stores, one call at a time; *)
(*   SpecScenario  saveStats alone, for the four-answer scenario;          *)
(*   SpecConc  two facade calls in flight at once, one step per await;     *)
(*   SpecSync  syncDataBetweenEnvironments while the display mode changes; *)
(*   SpecValidate  validateSettings applied to partial settings;           *)
(*   SpecValidateJS  the same on values of any JavaScript type;            *)
(*   SpecDetect  environment detection in every runtime;                   *)
(*   SpecImport  importStats with wider payloads;                          *)
(*   SpecReads  the read operations of the facade, saveStats the one write;*)
(*   SpecSettings  UnifiedSettingsManager over its two stores;             *)
(*   SpecGame  the GridMemoryGame component, its rounds and its timeouts.  *)
(***************************************************************************)
EXTENDS Integers, Sequences, FiniteSets, TLC

VARIABLES
  \* ---- aggregator (SpecAgg) ----
  stats,       \* record kept by gameStats.updateStats
  pstats,      \* record kept by pwaStats.updateStats on the same stream
  answers,     \* every outcome passed to update so far, oldest first
  fromEmpty,   \* TRUE iff the stream started from initializeStats()
  switches,    \* number of times the outcome changed value in the stream
  bestFull,    \* highest accuracy seen over the states whose window was full
  \* ---- persistence layer (Spec) ----
  hasWindow,         \* ambient: typeof window !== "undefined"
  displayMode,       \* ambient: what matchMedia("(display-mode: ..)") matches
  hasServiceWorker,  \* ambient: "serviceWorker" in navigator
  hasIndexedDB,      \* ambient: "indexedDB" in window
  env,               \* UnifiedStatsManager.env, memoized at construction
  initialized,       \* UnifiedStatsManager.initialized
  pwaManager,        \* UnifiedStatsManager.pwaManager (Null or its fields)
  localStorage,      \* value under "gameStatsMap": Null or the JSON text
  idb,               \* object store "stats": settingsKey -> stats
  lastOp,            \* the facade call that completed last, with its inputs
  ret,               \* what that call returned (or Rejected)
  scenario,          \* progress through the four-answer scenario, -1 if left
  nSaves,            \* number of saveStats calls that stored their answer
  \* ---- calls in flight (SpecConc) ----
  tasks,       \* per caller: the facade call it issued and where it stands
  mgrs,        \* the PWAStatsManager objects constructed so far
  dbs,         \* the PWAStatsDatabase objects constructed so far
  pwaRef,      \* UnifiedStatsManager.pwaManager as an index into mgrs, 0 = null
  queue,       \* pending object-store requests, served in the order placed
  \* ---- settings (SpecValidate) ----
  partial,     \* the Partial<GameSettings> handed to validateSettings
  validated,   \* what validateSettings returned for it
  \* ---- settings persistence (SpecSettings) ----
  settingsManager,  \* UnifiedSettingsManager: initialized, pwaManager's db
  settingsItem,     \* localStorage["gameSettings"]: Null or the JSON text
  settingsDB,       \* object store "settings", record "current": Null or it
  \* ---- the game component and its page (SpecGame) ----
  game,        \* state of GridMemoryGame and of the gameState / isFirstTime /
               \* currentStats of its page
  timers,      \* the timeouts that are pending
  clock,       \* time in ms
  round,       \* the round being played: what started it, answerTime when it
               \* started, and its number (a change of settings takes one)
  gameEvent    \* the event handled last, with the onStatsUpdate calls it made

aggVars == <<stats, pstats, answers, fromEmpty, switches, bestFull>>
ambient == <<hasWindow, displayMode, hasServiceWorker, hasIndexedDB>>
mgrVars == <<env, initialized, pwaManager>>
storeVars == <<localStorage, idb>>
ghostVars == <<lastOp, ret, scenario, nSaves>>
concVars == <<tasks, mgrs, dbs, pwaRef, queue>>
setVars == <<settingsManager, settingsItem, settingsDB>>
gameVars == <<game, timers, clock, round, gameEvent>>
valVars == <<partial, validated, setVars, gameVars>>
vars == <<aggVars, ambient, mgrVars, storeVars, ghostVars, concVars, valVars>>

----------------------------------------------------------------------------
(* Bounds *)

MaxUpdates == 102     \* length of the answer stream in SpecAgg
MaxSwitches == 1      \* how often the stream may change between true/false
MaxSaves == 2         \* answers stored by saveStats per run of Spec
MaxScenarioSaves == 4 \* answers stored per run of SpecScenario

----------------------------------------------------------------------------
(* JavaScript numbers                                                      *)

\* A call resolves with a value or rejects; ret holds [kind, value].
Returned(kind, value) == [kind |-> kind, value |-> value]
Void == Returned("undefined", 0)
Rejected == Returned("rejected", 0)

\* An optional value: <<>> when null, <<v>> otherwise.
Null == <<>>
Some(v) == <<v>>

\* Reading a field that the object lacks gives undefined; Math.max turns it
\* into NaN, which then propagates.  NaN is kept apart from every count.
NaN == 0 - 1

MathMax(a, b) == IF a = NaN \/ b = NaN THEN NaN ELSE IF a >= b THEN a ELSE b

\* IEEE-754 binary64 evaluation of Math.round((c / n) * 100), 0 < c <= n.
\* A significand is five little-endian limbs of 13 bits below the leading
\* limb: value = (l[5]*2^52 + l[4]*2^39 + l[3]*2^26 + l[2]*2^13 + l[1]).
Limb == 2^13

RECURSIVE Carry(_, _)
Carry(l, c) ==
  IF Len(l) = 1 THEN <<l[1] + c>>
  ELSE <<(l[1] + c) % Limb>> \o Carry(Tail(l), (l[1] + c) \div Limb)

RECURSIVE Scale(_, _, _)
Scale(c, n, s) == IF c * 2^s >= n THEN s ELSE Scale(c, n, s + 1)

\* c / n rounded to nearest-even on 53 bits: c/n = m * 2^(-52 - exp).
DoubleDiv(c, n) ==
  LET s  == Scale(c, n, 0)
      r0 == c * 2^s - n
      d1 == (r0 * Limb) \div n
      r1 == (r0 * Limb) % n
      d2 == (r1 * Limb) \div n
      r2 == (r1 * Limb) % n
      d3 == (r2 * Limb) \div n
      r3 == (r2 * Limb) % n
      d4 == (r3 * Limb) \div n
      r4 == (r3 * Limb) % n
      up == 2 * r4 > n \/ (2 * r4 = n /\ d4 % 2 = 1)
  IN  [exp |-> s,
       m   |-> IF up THEN Carry(<<d4 + 1, d3, d2, d1, 1>>, 0)
                     ELSE <<d4, d3, d2, d1, 1>>]

\* x * 100 rounded to nearest-even on 53 bits (the product has 59 or 60).
DoubleTimes100(x) ==
  LET p    == Carry([i \in 1..5 |-> x.m[i] * 100], 0)
      k    == IF p[5] < 128 THEN 6 ELSE 7
      drop == p[1] % 2^k
      keep == p[1] - drop
      up   == drop > 2^(k-1) \/ (drop = 2^(k-1) /\ (keep \div 2^k) % 2 = 1)
  IN  [exp |-> x.exp,
       m   |-> Carry(<<IF up THEN keep + 2^k ELSE keep>> \o Tail(p), 0)]

\* Math.round(y) = floor(y + 0.5); only the leading limb reaches the units.
MathRound(y) ==
  IF y.exp = 0 THEN y.m[5]
  ELSE (y.m[5] \div 2^(y.exp)) + ((y.m[5] \div 2^(y.exp - 1)) % 2)

RoundedPercent(c, n) ==
  IF c = 0 THEN 0 ELSE MathRound(DoubleTimes100(DoubleDiv(c, n)))

----------------------------------------------------------------------------
(* gameStats.ts                                                            *)

MAX_RECENT_ANSWERS == 100

initializeStats ==
  [totalChallenges |-> 0, recentAnswers |-> <<>>, maxConsecutiveCorrect |-> 0,
   currentConsecutiveCorrect |-> 0, bestAccuracy |-> 0]

\* stats.bestAccuracy as JavaScript reads it (undefined when absent).
BestAccuracyOf(s) == IF "bestAccuracy" \in DOMAIN s THEN s.bestAccuracy ELSE NaN

CountTrue(seq) == Cardinality({i \in 1..Len(seq) : seq[i]})

calculateAccuracy(s) ==
  IF Len(s.recentAnswers) = 0 THEN 0
  ELSE RoundedPercent(CountTrue(s.recentAnswers), Len(s.recentAnswers))

\* Variants of updateStats with one slip each.
\* The window is trimmed one answer too early.
updateStats_TrimEarly(s, isCorrect) ==
  LET appended == Append(s.recentAnswers, isCorrect)
      newRecentAnswers == IF Len(appended) >= MAX_RECENT_ANSWERS
                          THEN Tail(appended) ELSE appended
      newCurrentConsecutiveCorrect ==
        IF isCorrect THEN s.currentConsecutiveCorrect + 1 ELSE 0
  IN  [totalChallenges |-> s.totalChallenges + 1,
       recentAnswers |-> newRecentAnswers,
       maxConsecutiveCorrect |->
         MathMax(s.maxConsecutiveCorrect, newCurrentConsecutiveCorrect),
       currentConsecutiveCorrect |-> newCurrentConsecutiveCorrect,
       bestAccuracy |->
         MathMax(BestAccuracyOf(s),
                 calculateAccuracy([recentAnswers |-> newRecentAnswers]))]

\* The best streak is overwritten by the current one.
updateStats_MaxIsCurrent(s, isCorrect) ==
  LET appended == Append(s.recentAnswers, isCorrect)
      newRecentAnswers == IF Len(appended) > MAX_RECENT_ANSWERS
                          THEN Tail(appended) ELSE appended
      newCurrentConsecutiveCorrect ==
        IF isCorrect THEN s.currentConsecutiveCorrect + 1 ELSE 0
  IN  [totalChallenges |-> s.totalChallenges + 1,
       recentAnswers |-> newRecentAnswers,
       maxConsecutiveCorrect |-> newCurrentConsecutiveCorrect,
       currentConsecutiveCorrect |-> newCurrentConsecutiveCorrect,
       bestAccuracy |->
         MathMax(BestAccuracyOf(s),
                 calculateAccuracy([recentAnswers |-> newRecentAnswers]))]

\* The best accuracy is overwritten by the current one.
updateStats_BestIsCurrent(s, isCorrect) ==
  LET appended == Append(s.recentAnswers, isCorrect)
      newRecentAnswers == IF Len(appended) > MAX_RECENT_ANSWERS
                          THEN Tail(appended) ELSE appended
      newCurrentConsecutiveCorrect ==
        IF isCorrect THEN s.currentConsecutiveCorrect + 1 ELSE 0
  IN  [totalChallenges |-> s.totalChallenges + 1,
       recentAnswers |-> newRecentAnswers,
       maxConsecutiveCorrect |->
         MathMax(s.maxConsecutiveCorrect, newCurrentConsecutiveCorrect),
       currentConsecutiveCorrect |-> newCurrentConsecutiveCorrect,
       bestAccuracy |-> calculateAccuracy([recentAnswers |-> newRecentAnswers])]

\* A wrong answer leaves the current streak standing.
updateStats_KeepStreak(s, isCorrect) ==
  LET appended == Append(s.recentAnswers, isCorrect)
      newRecentAnswers == IF Len(appended) > MAX_RECENT_ANSWERS
                          THEN Tail(appended) ELSE appended
      newCurrentConsecutiveCorrect ==
        IF isCorrect THEN s.currentConsecutiveCorrect + 1
        ELSE s.currentConsecutiveCorrect
  IN  [totalChallenges |-> s.totalChallenges + 1,
       recentAnswers |-> newRecentAnswers,
       maxConsecutiveCorrect |->
         MathMax(s.maxConsecutiveCorrect, newCurrentConsecutiveCorrect),
       currentConsecutiveCorrect |-> newCurrentConsecutiveCorrect,
       bestAccuracy |->
         MathMax(BestAccuracyOf(s),
                 calculateAccuracy([recentAnswers |-> newRecentAnswers]))]

updateStats(s, isCorrect) ==
  LET appended == Append(s.recentAnswers, isCorrect)
      newRecentAnswers == IF Len(appended) > MAX_RECENT_ANSWERS
                          THEN Tail(appended) ELSE appended
      newCurrentConsecutiveCorrect ==
        IF isCorrect THEN s.currentConsecutiveCorrect + 1 ELSE 0
      newMaxConsecutiveCorrect ==
        MathMax(s.maxConsecutiveCorrect, newCurrentConsecutiveCorrect)
      currentAccuracy == calculateAccuracy([recentAnswers |-> newRecentAnswers])
      newBestAccuracy == MathMax(BestAccuracyOf(s), currentAccuracy)
  IN  [totalChallenges |-> s.totalChallenges + 1,
       recentAnswers |-> newRecentAnswers,
       maxConsecutiveCorrect |-> newMaxConsecutiveCorrect,
       currentConsecutiveCorrect |-> newCurrentConsecutiveCorrect,
       bestAccuracy |-> newBestAccuracy]

----------------------------------------------------------------------------
(* pwaStats.ts: its own copy of the aggregator                             *)

PWA_MAX_RECENT_ANSWERS == 100

PWA_initializeStats ==
  [totalChallenges |-> 0, recentAnswers |-> <<>>, maxConsecutiveCorrect |-> 0,
   currentConsecutiveCorrect |-> 0, bestAccuracy |-> 0]

\* A variant that truncates the percentage instead of rounding it.
PWA_calculateAccuracy_Floor(as) ==
  IF Len(as) = 0 THEN 0 ELSE (100 * CountTrue(as)) \div Len(as)

PWA_calculateAccuracy(as) ==
  IF Len(as) = 0 THEN 0 ELSE RoundedPercent(CountTrue(as), Len(as))

\* A variant of the copy in which a wrong answer leaves the streak standing.
PWA_updateStats_NoReset(s, isCorrect) ==
  LET appended == Append(s.recentAnswers, isCorrect)
      newRecentAnswers == IF Len(appended) > PWA_MAX_RECENT_ANSWERS
                          THEN Tail(appended) ELSE appended
      newCurrentConsecutiveCorrect ==
        IF isCorrect THEN s.currentConsecutiveCorrect + 1
        ELSE s.currentConsecutiveCorrect
  IN  [totalChallenges |-> s.totalChallenges + 1,
       recentAnswers |-> newRecentAnswers,
       maxConsecutiveCorrect |->
         MathMax(s.maxConsecutiveCorrect, newCurrentConsecutiveCorrect),
       currentConsecutiveCorrect |-> newCurrentConsecutiveCorrect,
       bestAccuracy |->
         MathMax(BestAccuracyOf(s), PWA_calculateAccuracy(newRecentAnswers))]

\* A variant of the copy that counts the correct answers only.
PWA_updateStats_CountCorrect(s, isCorrect) ==
  LET appended == Append(s.recentAnswers, isCorrect)
      newRecentAnswers == IF Len(appended) > PWA_MAX_RECENT_ANSWERS
                          THEN Tail(appended) ELSE appended
      newCurrentConsecutiveCorrect ==
        IF isCorrect THEN s.currentConsecutiveCorrect + 1 ELSE 0
  IN  [totalChallenges |-> IF isCorrect THEN s.totalChallenges + 1
                           ELSE s.totalChallenges,
       recentAnswers |-> newRecentAnswers,
       maxConsecutiveCorrect |->
         MathMax(s.maxConsecutiveCorrect, newCurrentConsecutiveCorrect),
       currentConsecutiveCorrect |-> newCurrentConsecutiveCorrect,
       bestAccuracy |->
         MathMax(BestAccuracyOf(s), PWA_calculateAccuracy(newRecentAnswers))]

PWA_updateStats(s, isCorrect) ==
  LET appended == Append(s.recentAnswers, isCorrect)
      newRecentAnswers == IF Len(appended) > PWA_MAX_RECENT_ANSWERS
                          THEN Tail(appended) ELSE appended
      newCurrentConsecutiveCorrect ==
        IF isCorrect THEN s.currentConsecutiveCorrect + 1 ELSE 0
      newMaxConsecutiveCorrect ==
        MathMax(s.maxConsecutiveCorrect, newCurrentConsecutiveCorrect)
      currentAccuracy == PWA_calculateAccuracy(newRecentAnswers)
      newBestAccuracy == MathMax(BestAccuracyOf(s), currentAccuracy)
  IN  [totalChallenges |-> s.totalChallenges + 1,
       recentAnswers |-> newRecentAnswers,
       maxConsecutiveCorrect |-> newMaxConsecutiveCorrect,
       currentConsecutiveCorrect |-> newCurrentConsecutiveCorrect,
       bestAccuracy |-> newBestAccuracy]

----------------------------------------------------------------------------
(* Strings, JavaScript objects and JSON                                    *)

\* A string is the sequence of its character codes.
Minus == <<45>>

RECURSIVE DecimalDigits(_)
DecimalDigits(n) ==
  IF n < 10 THEN <<48 + n>> ELSE DecimalDigits(n \div 10) \o <<48 + (n % 10)>>

\* `${n}` for an integer n.
NumberToString(n) == IF n < 0 THEN Minus \o DecimalDigits(0 - n) ELSE DecimalDigits(n)

\* gameStats.ts and pwaStats.ts each define the fingerprint.
\* A variant that joins the four numbers without the separator.
generateSettingsKey_NoSeparator(settings) ==
  NumberToString(settings.gridSize) \o NumberToString(settings.showTime)
    \o NumberToString(settings.answerTime) \o NumberToString(settings.numActiveCells)

generateSettingsKey(settings) ==
  NumberToString(settings.gridSize) \o Minus \o NumberToString(settings.showTime)
    \o Minus \o NumberToString(settings.answerTime)
    \o Minus \o NumberToString(settings.numActiveCells)

PWA_generateSettingsKey(settings) ==
  NumberToString(settings.gridSize) \o Minus \o NumberToString(settings.showTime)
    \o Minus \o NumberToString(settings.answerTime)
    \o Minus \o NumberToString(settings.numActiveCells)

\* An object with string keys is the sequence of its own properties
\* <<key, value>> in property order, each key once.
ObjHas(o, k) == \E i \in 1..Len(o) : o[i][1] = k
ObjGet(o, k) == o[CHOOSE i \in 1..Len(o) : o[i][1] = k][2]

\* o[k] = v: an existing property keeps its place, a new one goes last.
ObjSet(o, k, v) ==
  IF ObjHas(o, k) THEN [i \in 1..Len(o) |-> IF o[i][1] = k THEN <<k, v>> ELSE o[i]]
  ELSE Append(o, <<k, v>>)

\* The object as a mapping, property order forgotten.
AsMap(o) == [k \in {o[i][1] : i \in 1..Len(o)} |-> ObjGet(o, k)]

\* A JSON text is [syntax, members, indent]: the members of its top-level
\* object in textual order (a key may repeat) and the indentation it was
\* written with; Malformed is a text that JSON.parse rejects.
Malformed == [syntax |-> "garbage", members |-> <<>>, indent |-> 0]

JSONstringify(o, indent) == [syntax |-> "object", members |-> o, indent |-> indent]

RECURSIVE ParseMembers(_, _)
ParseMembers(ms, o) ==
  IF ms = <<>> THEN o
  ELSE ParseMembers(Tail(ms), ObjSet(o, Head(ms)[1], Head(ms)[2]))

\* A variant of the parser that takes any text for an object.
JSONparseOK_Lenient(text) == text.syntax \in {"object", "garbage"}

JSONparseOK(text) == text.syntax = "object"
JSONparse(text) == ParseMembers(text.members, <<>>)

----------------------------------------------------------------------------
(* Flat store: gameStats.ts on localStorage["gameStatsMap"]                *)

\* if (!x.hasOwnProperty("bestAccuracy")) x.bestAccuracy = 0
MigrateRecord(r) ==
  IF "bestAccuracy" \in DOMAIN r THEN r
  ELSE [f \in DOMAIN r \cup {"bestAccuracy"} |->
          IF f = "bestAccuracy" THEN 0 ELSE r[f]]

\* ls is the optional item under "gameStatsMap".
getStatsFromStorage(ls) ==
  IF ls = Null THEN <<>>
  ELSE IF ~JSONparseOK(ls[1]) THEN <<>>
  ELSE LET statsMap == JSONparse(ls[1])
       IN  [i \in 1..Len(statsMap) |->
              <<statsMap[i][1], MigrateRecord(statsMap[i][2])>>]

\* A variant that leaves an item that exists already as it is.
saveStatsToStorage_KeepExisting(ls, statsMap, setItemOK) ==
  IF setItemOK /\ ls = Null THEN Some(JSONstringify(statsMap, 0)) ELSE ls

\* setItemOK = FALSE: localStorage.setItem throws (quota); it is caught.
saveStatsToStorage(ls, statsMap, setItemOK) ==
  IF setItemOK THEN Some(JSONstringify(statsMap, 0)) ELSE ls

getStatsForSettings(statsMap, settings) ==
  LET key == generateSettingsKey(settings)
  IN  IF ObjHas(statsMap, key) THEN ObjGet(statsMap, key) ELSE initializeStats

\* A variant that returns a map holding the updated record alone.
updateStatsForSettings_DropOthers(statsMap, settings, isCorrect) ==
  LET key == generateSettingsKey(settings)
      currentStats == IF ObjHas(statsMap, key) THEN ObjGet(statsMap, key)
                      ELSE initializeStats
  IN  << <<key, updateStats(currentStats, isCorrect)>> >>

updateStatsForSettings(statsMap, settings, isCorrect) ==
  LET key == generateSettingsKey(settings)
      currentStats == IF ObjHas(statsMap, key) THEN ObjGet(statsMap, key)
                      ELSE initializeStats
  IN  ObjSet(statsMap, key, updateStats(currentStats, isCorrect))

----------------------------------------------------------------------------
(* Structured store: PWAStatsDatabase on the object store "stats"          *)

RECURSIVE StrLess(_, _)
StrLess(a, b) ==
  IF b = <<>> THEN FALSE
  ELSE IF a = <<>> THEN TRUE
  ELSE IF Head(a) # Head(b) THEN Head(a) < Head(b)
  ELSE StrLess(Tail(a), Tail(b))

\* The keys of a store in ascending key order, as getAll() lists them.
RECURSIVE KeysAscending(_)
KeysAscending(ks) ==
  IF ks = {} THEN <<>>
  ELSE LET least == CHOOSE k \in ks : \A j \in ks \ {k} : StrLess(k, j)
       IN  <<least>> \o KeysAscending(ks \ {least})

EmptyStore == [k \in {} |-> initializeStats]

\* A variant of put that never lets totalChallenges fall behind the stored
\* one: a record that is not newer than the stored record counts on from it.
DB_saveStats_CountBoth(store, settingsKey, s) ==
  [k \in DOMAIN store \cup {settingsKey} |->
     IF k # settingsKey THEN store[k]
     ELSE IF k \in DOMAIN store /\ store[k].totalChallenges >= s.totalChallenges
          THEN [s EXCEPT !.totalChallenges = store[k].totalChallenges + 1]
          ELSE s]

DB_saveStats(store, settingsKey, s) ==
  [k \in DOMAIN store \cup {settingsKey} |->
     IF k = settingsKey THEN s ELSE store[k]]

DB_getStats(store, settingsKey) ==
  IF settingsKey \in DOMAIN store THEN Some(MigrateRecord(store[settingsKey]))
  ELSE Null

\* A variant that hands the stored records out as they are.
DB_getAllStats_NoMigration(store) ==
  LET ks == KeysAscending(DOMAIN store)
  IN  [i \in 1..Len(ks) |-> <<ks[i], store[ks[i]]>>]

DB_getAllStats(store) ==
  LET ks == KeysAscending(DOMAIN store)
  IN  [i \in 1..Len(ks) |-> <<ks[i], MigrateRecord(store[ks[i]])>>]

\* PWAStatsDatabase.init on a handle that is not open yet.
DB_init(handle, openOK) ==
  IF handle = "open" THEN [ok |-> TRUE, db |-> "open"]
  ELSE IF openOK THEN [ok |-> TRUE, db |-> "open"]
  ELSE [ok |-> FALSE, db |-> "closed"]

----------------------------------------------------------------------------
(* Environment detection                                                   *)

\* The runtimes the manager is constructed in: <<display mode,
\* "serviceWorker" in navigator, "indexedDB" in window>>.
Runtimes ==
  { <<"browser", TRUE, TRUE>>,       \* a browser tab
    <<"standalone", TRUE, TRUE>>,    \* the installed app
    <<"standalone", TRUE, FALSE>> }  \* installed, no structured store

isPWA(mode, sw, ixdb) ==
  (mode = "standalone" \/ mode = "fullscreen" \/ mode = "minimal-ui") /\ sw /\ ixdb

detectEnvironment(mode, sw, ixdb) ==
  [isPWA |-> isPWA(mode, sw, ixdb), hasIndexedDB |-> ixdb]

----------------------------------------------------------------------------
(* PWAStatsManager: fields db ("null", or the state of its database        *)
(* handle, "closed" / "open") and initialized; NoPWAManager stands for a   *)
(* null reference to a manager.  Every operation returns                   *)
(* [ok, m, store, value]: whether the promise resolved, the manager and    *)
(* the object store afterwards, and the resolved value.                    *)

NoPWAManager == [db |-> "no manager", initialized |-> FALSE]
NewPWAStatsManager == [db |-> "null", initialized |-> FALSE]

PWAM_init(m, pwaNow, openOK) ==
  IF m.initialized THEN [ok |-> TRUE, m |-> m]
  ELSE IF pwaNow
       THEN LET r == DB_init("closed", openOK)
            IN  IF r.ok THEN [ok |-> TRUE, m |-> [db |-> r.db, initialized |-> TRUE]]
                ELSE [ok |-> FALSE, m |-> [db |-> r.db, initialized |-> FALSE]]
       ELSE [ok |-> TRUE, m |-> [db |-> m.db, initialized |-> TRUE]]

\* "PWA environment not detected" (db null) and "Database not initialized"
\* (handle not open) both reject the call.
Usable(m) == m.db = "open"

Failed(m, store) == [ok |-> FALSE, m |-> m, store |-> store, value |-> Rejected]

PWAM_saveStats(m, store, pwaNow, settings, isCorrect, openOK, putOK) ==
  LET i == PWAM_init(m, pwaNow, openOK)
  IN  IF ~i.ok \/ ~Usable(i.m) THEN Failed(i.m, store)
      ELSE LET settingsKey == PWA_generateSettingsKey(settings)
               found == DB_getStats(store, settingsKey)
               currentStats == IF found = Null THEN PWA_initializeStats ELSE found[1]
               updatedStats == PWA_updateStats(currentStats, isCorrect)
           IN  IF putOK
               THEN [ok |-> TRUE, m |-> i.m, value |-> Void,
                     store |-> DB_saveStats(store, settingsKey, updatedStats)]
               ELSE Failed(i.m, store)

PWAM_getStats(m, store, pwaNow, settings, openOK) ==
  LET i == PWAM_init(m, pwaNow, openOK)
  IN  IF ~i.ok \/ ~Usable(i.m) THEN Failed(i.m, store)
      ELSE LET found == DB_getStats(store, PWA_generateSettingsKey(settings))
           IN  [ok |-> TRUE, m |-> i.m, store |-> store,
                value |-> Returned("stats",
                            IF found = Null THEN PWA_initializeStats ELSE found[1])]

\* A variant that writes the normalized records back to the object store.
PWAM_getAllStats_Persist(m, store, pwaNow, openOK) ==
  LET i == PWAM_init(m, pwaNow, openOK)
  IN  IF ~i.ok \/ ~Usable(i.m) THEN Failed(i.m, store)
      ELSE [ok |-> TRUE, m |-> i.m,
            store |-> [k \in DOMAIN store |-> MigrateRecord(store[k])],
            value |-> Returned("map", DB_getAllStats(store))]

PWAM_getAllStats(m, store, pwaNow, openOK) ==
  LET i == PWAM_init(m, pwaNow, openOK)
  IN  IF ~i.ok \/ ~Usable(i.m) THEN Failed(i.m, store)
      ELSE [ok |-> TRUE, m |-> i.m, store |-> store,
            value |-> Returned("map", DB_getAllStats(store))]

PWAM_exportStats(m, store, pwaNow, openOK) ==
  LET i == PWAM_init(m, pwaNow, openOK)
  IN  IF ~i.ok \/ ~Usable(i.m) THEN Failed(i.m, store)
      ELSE [ok |-> TRUE, m |-> i.m, store |-> store,
            value |-> Returned("text", JSONstringify(DB_getAllStats(store), 2))]

\* Writes the entries one by one; putFailAt = k > 0 makes the k-th put fail.
\* A variant that files each record under its position in the payload
\* instead of its fingerprint.
RECURSIVE PutEach_ByIndex(_, _, _, _)
PutEach_ByIndex(store, entries, n, putFailAt) ==
  IF entries = <<>> THEN [ok |-> TRUE, store |-> store]
  ELSE IF n = putFailAt THEN [ok |-> FALSE, store |-> store]
  ELSE PutEach_ByIndex(DB_saveStats(store, NumberToString(n - 1), Head(entries)[2]),
                       Tail(entries), n + 1, putFailAt)

\* A variant that goes on with the remaining entries after a failed put.
RECURSIVE PutEach_SkipFailed(_, _, _, _)
PutEach_SkipFailed(store, entries, n, putFailAt) ==
  IF entries = <<>> THEN [ok |-> putFailAt = 0 \/ putFailAt >= n, store |-> store]
  ELSE IF n = putFailAt
  THEN PutEach_SkipFailed(store, Tail(entries), n + 1, putFailAt)
  ELSE PutEach_SkipFailed(DB_saveStats(store, Head(entries)[1], Head(entries)[2]),
                          Tail(entries), n + 1, putFailAt)

RECURSIVE PutEach(_, _, _, _)
PutEach(store, entries, n, putFailAt) ==
  IF entries = <<>> THEN [ok |-> TRUE, store |-> store]
  ELSE IF n = putFailAt THEN [ok |-> FALSE, store |-> store]
  ELSE PutEach(DB_saveStats(store, Head(entries)[1], Head(entries)[2]),
               Tail(entries), n + 1, putFailAt)

PWAM_importStats(m, store, pwaNow, jsonData, openOK, putFailAt) ==
  LET i == PWAM_init(m, pwaNow, openOK)
  IN  IF ~i.ok \/ ~Usable(i.m) THEN Failed(i.m, store)
      ELSE IF ~JSONparseOK(jsonData) THEN Failed(i.m, store)
      ELSE LET w == PutEach(store, JSONparse(jsonData), 1, putFailAt)
           IN  [ok |-> w.ok, m |-> i.m, store |-> w.store,
                value |-> IF w.ok THEN Void ELSE Rejected]

----------------------------------------------------------------------------
(* gameSettings.ts                                                         *)

SettingsFields ==
  {"gridSize", "showTime", "answerTime", "numActiveCells", "targetConsecutive"}

DEFAULT_SETTINGS ==
  [gridSize |-> 4, showTime |-> 500, answerTime |-> 0, numActiveCells |-> 5,
   targetConsecutive |-> 20]

\* Math.max and Math.min on integers (negative ones included).
MathMaxInt(a, b) == IF a >= b THEN a ELSE b
MathMin(a, b) == IF a <= b THEN a ELSE b

\* settings.f || DEFAULT_SETTINGS.f: an absent field reads undefined, and
\* undefined and 0 are falsy.
OrDefault(settings, f) ==
  IF f \in DOMAIN settings /\ settings[f] # 0 THEN settings[f] ELSE DEFAULT_SETTINGS[f]

\* A variant that caps numActiveCells by the square of the grid size that
\* was asked for, before that size is brought into its own range.
validateSettings_CellsByRequestedGrid(settings) ==
  [gridSize |-> MathMaxInt(2, MathMin(8, OrDefault(settings, "gridSize"))),
   showTime |-> MathMaxInt(100, MathMin(10000, OrDefault(settings, "showTime"))),
   answerTime |-> MathMaxInt(0, MathMin(30000, OrDefault(settings, "answerTime"))),
   numActiveCells |->
     MathMaxInt(1, MathMin(OrDefault(settings, "gridSize") * OrDefault(settings, "gridSize"),
                        OrDefault(settings, "numActiveCells"))),
   targetConsecutive |->
     MathMaxInt(1, MathMin(100, OrDefault(settings, "targetConsecutive")))]

validateSettings(settings) ==
  [gridSize |-> MathMaxInt(2, MathMin(8, OrDefault(settings, "gridSize"))),
   showTime |-> MathMaxInt(100, MathMin(10000, OrDefault(settings, "showTime"))),
   answerTime |-> MathMaxInt(0, MathMin(30000, OrDefault(settings, "answerTime"))),
   numActiveCells |-> MathMaxInt(1, MathMin(64, OrDefault(settings, "numActiveCells"))),
   targetConsecutive |->
     MathMaxInt(1, MathMin(100, OrDefault(settings, "targetConsecutive")))]

\* validateSettings on values of any JavaScript type, as a stored settings
\* object may hold them.  A value is [type, nan, n, empty]: its typeof, and
\* what ToNumber and ToBoolean make of it (nan: ToNumber gives NaN, n: the
\* number otherwise, empty: the empty string or null).
JSNumber(n) == [type |-> "number", nan |-> FALSE, n |-> n, empty |-> FALSE]
JSNaN == [type |-> "number", nan |-> TRUE, n |-> 0, empty |-> FALSE]
JSString(nan, n, empty) == [type |-> "string", nan |-> nan, n |-> n, empty |-> empty]
JSNull == [type |-> "object", nan |-> FALSE, n |-> 0, empty |-> TRUE]

ToBoolean(v) ==
  IF v.type = "number" THEN ~v.nan /\ v.n # 0 ELSE ~v.empty

ToNumber(v) == IF v.nan THEN JSNaN ELSE JSNumber(v.n)

\* settings.f || DEFAULT_SETTINGS.f
OrDefaultJS(settings, f) ==
  IF f \in DOMAIN settings /\ ToBoolean(settings[f]) THEN settings[f]
  ELSE JSNumber(DEFAULT_SETTINGS[f])

\* Math.max(lo, Math.min(hi, v)): the argument is converted to a number,
\* and NaN makes the result NaN.
ClampJS(lo, hi, v) ==
  IF ToNumber(v).nan THEN JSNaN
  ELSE JSNumber(MathMaxInt(lo, MathMin(hi, ToNumber(v).n)))

validateSettingsJS(settings) ==
  [gridSize |-> ClampJS(2, 8, OrDefaultJS(settings, "gridSize")),
   showTime |-> ClampJS(100, 10000, OrDefaultJS(settings, "showTime")),
   answerTime |-> ClampJS(0, 30000, OrDefaultJS(settings, "answerTime")),
   numActiveCells |-> ClampJS(1, 64, OrDefaultJS(settings, "numActiveCells")),
   targetConsecutive |-> ClampJS(1, 100, OrDefaultJS(settings, "targetConsecutive"))]

\* Settings persistence.  The envelope {settings, lastUpdated, version} as
\* JSON.stringify writes it; the clock is not modelled.
SettingsEnvelope(settings) ==
  << <<"settings", settings>>, <<"lastUpdated", "2024-01-01T00:00:00.000Z">>,
     <<"version", "1.0.0">> >>

\* setItemOK = FALSE: localStorage.setItem throws; it is caught.
saveSettingsToStorage(item, settings, setItemOK) ==
  IF setItemOK THEN Some(JSONstringify(SettingsEnvelope(settings), 0)) ELSE item

loadSettingsFromStorage(item) ==
  IF item = Null \/ ~JSONparseOK(item[1]) THEN DEFAULT_SETTINGS
  ELSE validateSettings(ObjGet(JSONparse(item[1]), "settings"))

\* The callers that may have a facade call in flight, and a caller that has
\* not issued one.
Callers == {1, 2}

IdleTask ==
  [op |-> "none", pc |-> "idle", settings |-> DEFAULT_SETTINGS, isCorrect |-> FALSE,
   m |-> 0, d |-> 0, cur |-> initializeStats, upd |-> initializeStats,
   ok |-> TRUE, stale |-> FALSE]

IdleConc ==
  /\ tasks = [t \in Callers |-> IdleTask]
  /\ mgrs = <<>> /\ dbs = <<>> /\ pwaRef = 0 /\ queue = <<>>

\* The page has not been mounted.
IdleGame ==
  /\ game = [settings |-> DEFAULT_SETTINGS, consecutiveCorrect |-> 0,
             targetAchieved |-> FALSE, showStartButton |-> TRUE,
             isInitialized |-> FALSE, solution |-> <<>>, previousSolution |-> <<>>,
             userGrid |-> <<>>, showAnswer |-> TRUE, isFinished |-> FALSE,
             timerExpired |-> FALSE, isRetryMode |-> FALSE,
             currentStats |-> Null]
  /\ timers = {} /\ clock = 0
  /\ round = [id |-> 0, startedBy |-> "none", answerTime |-> 0]
  /\ gameEvent = [name |-> "mount", timer |-> Null, calls |-> <<>>]

\* No settings have been handed to validateSettings yet.
\* A new UnifiedSettingsManager, nothing stored.
IdleSettings ==
  /\ settingsManager = [initialized |-> FALSE, pwaManager |-> "null"]
  /\ settingsItem = Null /\ settingsDB = Null

IdleValidate ==
  /\ partial = [f \in {} |-> 0]
  /\ validated = DEFAULT_SETTINGS
  /\ IdleSettings /\ IdleGame

----------------------------------------------------------------------------
(* SpecAgg: update applied to a stream of graded answers                   *)

\* A record that update may be handed besides the empty one (any stored
\* record is a legal argument; this one is not reachable from empty).
StoredRecord ==
  [totalChallenges |-> 250, recentAnswers |-> <<FALSE>>,
   maxConsecutiveCorrect |-> 9, currentConsecutiveCorrect |-> 3,
   bestAccuracy |-> 50]

StartRecords == {initializeStats, StoredRecord}

\* accuracy(seq) as the data model defines it: round(100 * count(true) /
\* length) in exact arithmetic, halves rounded up, 0 for the empty sequence.
Accuracy(seq) ==
  IF Len(seq) = 0 THEN 0
  ELSE (200 * CountTrue(seq) + Len(seq)) \div (2 * Len(seq))

Max(a, b) == IF a >= b THEN a ELSE b

IdleStore ==
  /\ hasWindow = TRUE
  /\ displayMode = "browser" /\ hasServiceWorker = FALSE /\ hasIndexedDB = FALSE
  /\ env = [isPWA |-> FALSE, hasIndexedDB |-> FALSE]
  /\ initialized = FALSE /\ pwaManager = [db |-> "no manager", initialized |-> FALSE]
  /\ localStorage = Null /\ idb = <<>>
  /\ lastOp = [name |-> "none", arg |-> Null, ok |-> TRUE, faulted |-> FALSE]
  /\ ret = Void /\ scenario = 0 /\ nSaves = 0

InitAgg ==
  /\ stats \in StartRecords
  /\ pstats = stats
  /\ answers = <<>>
  /\ fromEmpty = (stats = initializeStats)
  /\ switches = 0
  /\ bestFull = NaN
  /\ IdleStore /\ IdleConc /\ IdleValidate

Update(isCorrect) ==
  /\ Len(answers) < MaxUpdates
  /\ LET sw == IF answers # <<>> /\ answers[Len(answers)] # isCorrect
               THEN switches + 1 ELSE switches
     IN  /\ sw <= MaxSwitches
         /\ switches' = sw
  /\ stats' = updateStats(stats, isCorrect)
  /\ pstats' = PWA_updateStats(pstats, isCorrect)
  /\ answers' = Append(answers, isCorrect)
  /\ bestFull' = IF Len(stats'.recentAnswers) = MAX_RECENT_ANSWERS
                 THEN Max(bestFull, Accuracy(stats'.recentAnswers))
                 ELSE bestFull
  /\ UNCHANGED <<fromEmpty, ambient, mgrVars, storeVars, ghostVars, concVars, valVars>>

NextAgg == \E isCorrect \in BOOLEAN : Update(isCorrect)

SpecAgg == InitAgg /\ [][NextAgg]_vars

----------------------------------------------------------------------------
(* UnifiedStatsManager                                                     *)

\* What the ambient runtime answers to isPWA() at this moment.
PwaNow == hasWindow /\ isPWA(displayMode, hasServiceWorker, hasIndexedDB)

\* init(): [ok, initialized, pwaManager] after the call.
USM_init(openOK) ==
  IF initialized
  THEN [ok |-> TRUE, initialized |-> TRUE, pwaManager |-> pwaManager]
  ELSE IF env.isPWA
       THEN LET r == PWAM_init(NewPWAStatsManager, PwaNow, openOK)
            IN  [ok |-> r.ok, initialized |-> r.ok, pwaManager |-> r.m]
       ELSE [ok |-> TRUE, initialized |-> TRUE, pwaManager |-> pwaManager]

\* The branch test "this.env.isPWA && this.pwaManager".
UsesPWA(i) == env.isPWA /\ i.pwaManager # NoPWAManager

\* Inputs of the calls.
Settings(g, t) ==
  [gridSize |-> g, showTime |-> 500, answerTime |-> 0, numActiveCells |-> 5,
   targetConsecutive |-> t]

SettingsInputs == {Settings(4, 20), Settings(4, 10), Settings(5, 20)}

LegacyRecord ==
  [totalChallenges |-> 3, recentAnswers |-> <<TRUE, FALSE, TRUE>>,
   maxConsecutiveCorrect |-> 1, currentConsecutiveCorrect |-> 1]

ImportedRecord ==
  [totalChallenges |-> 2, recentAnswers |-> <<TRUE, TRUE>>,
   maxConsecutiveCorrect |-> 2, currentConsecutiveCorrect |-> 2,
   bestAccuracy |-> 100]

\* What an earlier release left in the stores: one record without
\* bestAccuracy under the default settings' fingerprint.
LegacyObject == << <<generateSettingsKey(Settings(4, 20)), LegacyRecord>> >>
LegacyStore == DB_saveStats(EmptyStore, generateSettingsKey(Settings(4, 20)), LegacyRecord)

ImportPayloads ==
  { Malformed,
    JSONstringify(<< <<generateSettingsKey(Settings(5, 20)), ImportedRecord>>,
                     <<generateSettingsKey(Settings(4, 20)), LegacyRecord>> >>, 2) }

\* What the stores hold when the manager is constructed: nothing, the
\* legacy record, or (flat store) an item that is not JSON.
Seeds == {"empty", "legacy", "corrupt"}

\* JSON.parse throws on the stored item; getStatsFromStorage catches it.
Unreadable(ls) == ls # Null /\ ~JSONparseOK(ls[1])

\* The four-answer scenario of the test plan.
ScenarioSettings == Settings(4, 20)
ScenarioOutcomes == <<TRUE, TRUE, FALSE, TRUE>>

\* The manager has just been constructed in one of the given runtimes.
InitFrom(runtimes) ==
  /\ \E rt \in runtimes :
       displayMode = rt[1] /\ hasServiceWorker = rt[2] /\ hasIndexedDB = rt[3]
  /\ hasWindow = TRUE
  /\ env = detectEnvironment(displayMode, hasServiceWorker, hasIndexedDB)
  /\ initialized = FALSE
  /\ pwaManager = NoPWAManager
  /\ \E seed \in Seeds :
       /\ seed = "corrupt" => ~env.isPWA
       /\ localStorage = CASE seed = "empty" -> Null
                            [] seed = "legacy" -> Some(JSONstringify(LegacyObject, 0))
                            [] seed = "corrupt" -> Some(Malformed)
       /\ idb = IF seed = "legacy" THEN LegacyStore ELSE EmptyStore
  /\ lastOp = [name |-> "none", arg |-> Null, ok |-> TRUE, faulted |-> FALSE]
  /\ ret = Void
  /\ scenario = IF localStorage = Null /\ idb = EmptyStore THEN 0 ELSE 0 - 1
  /\ nSaves = 0
  /\ stats = initializeStats /\ pstats = initializeStats /\ answers = <<>>
  /\ fromEmpty = TRUE /\ switches = 0 /\ bestFull = NaN
  /\ IdleConc /\ IdleValidate

Init == InitFrom(Runtimes)

\* The state a call leaves behind.
Complete(name, arg, ok, faulted, i, mgr2, ls2, idb2, val) ==
  /\ initialized' = i.initialized
  /\ pwaManager' = mgr2
  /\ localStorage' = ls2
  /\ idb' = idb2
  /\ lastOp' = [name |-> name, arg |-> arg, ok |-> ok, faulted |-> faulted]
  /\ ret' = val
  /\ UNCHANGED <<aggVars, ambient, env, concVars, valVars>>

\* A call on the structured backend, given the PWAStatsManager's result r.
CompletePWA(name, arg, i, r) ==
  Complete(name, arg, r.ok, ~r.ok, i, r.m, localStorage, r.store, r.value)

\* A call whose init() rejected.
CompleteRejected(name, arg, i) ==
  Complete(name, arg, FALSE, TRUE, i, i.pwaManager, localStorage, idb, Rejected)

InitManager(openOK) ==
  LET i == USM_init(openOK)
  IN  /\ Complete("init", Null, i.ok, ~i.ok, i, i.pwaManager, localStorage, idb,
                  IF i.ok THEN Void ELSE Rejected)
      /\ UNCHANGED <<scenario, nSaves>>

SaveStatsCall(settings, isCorrect, openOK, putOK, setItemOK) ==
  LET i == USM_init(openOK)
      arg == <<settings, isCorrect>>
      onScript == /\ scenario \in 0..(Len(ScenarioOutcomes) - 1)
                  /\ generateSettingsKey(settings) = generateSettingsKey(ScenarioSettings)
                  /\ isCorrect = ScenarioOutcomes[scenario + 1]
  IN  /\ IF ~i.ok THEN CompleteRejected("saveStats", arg, i)
         ELSE IF UsesPWA(i)
         THEN CompletePWA("saveStats", arg, i,
                PWAM_saveStats(i.pwaManager, idb, PwaNow, settings, isCorrect, openOK, putOK))
         ELSE LET statsMap == getStatsFromStorage(localStorage)
                  updatedStatsMap == updateStatsForSettings(statsMap, settings, isCorrect)
              IN  Complete("saveStats", arg, TRUE, ~setItemOK, i, i.pwaManager,
                           saveStatsToStorage(localStorage, updatedStatsMap, setItemOK),
                           idb, Void)
      /\ nSaves' = IF lastOp'.ok /\ ~lastOp'.faulted THEN nSaves + 1 ELSE nSaves
      /\ scenario' = IF onScript /\ lastOp'.ok /\ ~lastOp'.faulted
                     THEN scenario + 1 ELSE 0 - 1

SaveStats(settings, isCorrect, openOK, putOK, setItemOK) ==
  /\ nSaves < MaxSaves
  /\ SaveStatsCall(settings, isCorrect, openOK, putOK, setItemOK)

\* saveStats as the only caller, one call after the other.
ScenarioSave(settings, isCorrect, openOK, putOK, setItemOK) ==
  /\ nSaves < MaxScenarioSaves
  /\ SaveStatsCall(settings, isCorrect, openOK, putOK, setItemOK)

GetStats(settings, openOK) ==
  LET i == USM_init(openOK)
  IN  /\ IF ~i.ok THEN CompleteRejected("getStats", settings, i)
         ELSE IF UsesPWA(i)
         THEN LET r == PWAM_getStats(i.pwaManager, idb, PwaNow, settings, openOK)
              IN  CompletePWA("getStats", settings, i,
                    IF r.ok THEN [r EXCEPT !.value.value = MigrateRecord(@)] ELSE r)
         ELSE Complete("getStats", settings, TRUE, Unreadable(localStorage), i, i.pwaManager,
                localStorage, idb,
                Returned("stats",
                  getStatsForSettings(getStatsFromStorage(localStorage), settings)))
      /\ UNCHANGED <<scenario, nSaves>>

GetAllStats(openOK) ==
  LET i == USM_init(openOK)
  IN  /\ IF ~i.ok THEN CompleteRejected("getAllStats", Null, i)
         ELSE IF UsesPWA(i)
         THEN CompletePWA("getAllStats", Null, i,
                PWAM_getAllStats(i.pwaManager, idb, PwaNow, openOK))
         ELSE Complete("getAllStats", Null, TRUE, Unreadable(localStorage), i, i.pwaManager,
                localStorage, idb,
                Returned("map", getStatsFromStorage(localStorage)))
      /\ UNCHANGED <<scenario, nSaves>>

\* statsMap[settingsKey] || null
Lookup(statsMap, settingsKey) ==
  IF ObjHas(statsMap, settingsKey)
  THEN Returned("stats", ObjGet(statsMap, settingsKey))
  ELSE Returned("null", 0)

GetStatsByKey(settingsKey, openOK) ==
  LET i == USM_init(openOK)
  IN  /\ IF ~i.ok THEN CompleteRejected("getStatsByKey", settingsKey, i)
         ELSE IF UsesPWA(i)
         THEN LET r == PWAM_getAllStats(i.pwaManager, idb, PwaNow, openOK)
              IN  CompletePWA("getStatsByKey", settingsKey, i,
                    IF r.ok THEN [r EXCEPT !.value = Lookup(@.value, settingsKey)] ELSE r)
         ELSE Complete("getStatsByKey", settingsKey, TRUE, Unreadable(localStorage), i,
                       i.pwaManager,
                localStorage, idb,
                Lookup(getStatsFromStorage(localStorage), settingsKey))
      /\ UNCHANGED <<scenario, nSaves>>

ExportStats(openOK) ==
  LET i == USM_init(openOK)
  IN  /\ IF ~i.ok THEN CompleteRejected("exportStats", Null, i)
         ELSE IF UsesPWA(i)
         THEN CompletePWA("exportStats", Null, i,
                PWAM_exportStats(i.pwaManager, idb, PwaNow, openOK))
         ELSE Complete("exportStats", Null, TRUE, Unreadable(localStorage), i, i.pwaManager,
                localStorage, idb,
                Returned("text", JSONstringify(getStatsFromStorage(localStorage), 2)))
      /\ UNCHANGED <<scenario, nSaves>>

\* importStats(jsonData), completing as the call `name`.
ImportStatsCall(name, jsonData, openOK, putFailAt, setItemOK) ==
  LET i == USM_init(openOK)
  IN  /\ IF ~i.ok THEN CompleteRejected(name, jsonData, i)
         ELSE IF UsesPWA(i)
         THEN CompletePWA(name, jsonData, i,
                PWAM_importStats(i.pwaManager, idb, PwaNow, jsonData, openOK, putFailAt))
         ELSE IF ~JSONparseOK(jsonData)
         THEN CompleteRejected(name, jsonData, i)
         ELSE Complete(name, jsonData, TRUE, ~setItemOK, i, i.pwaManager,
                saveStatsToStorage(localStorage, JSONparse(jsonData), setItemOK),
                idb, Void)
      /\ scenario' = 0 - 1
      /\ UNCHANGED nSaves

ImportStats(jsonData, openOK, putFailAt, setItemOK) ==
  ImportStatsCall("importStats", jsonData, openOK, putFailAt, setItemOK)

\* restoreFromBackup(backup): init, then importStats(backup.data).
RestoreFromBackup(backup, openOK, putFailAt, setItemOK) ==
  ImportStatsCall("restoreFromBackup", backup.data, openOK, putFailAt, setItemOK)

ClearAllStats(openOK, reopenOK) ==
  LET i == USM_init(openOK)
  IN  /\ IF ~i.ok THEN CompleteRejected("clearAllStats", Null, i)
         ELSE IF UsesPWA(i)
         THEN \* a second manager is created and initialized, nothing is cleared
              LET r == PWAM_init(NewPWAStatsManager, PwaNow, reopenOK)
              IN  Complete("clearAllStats", Null, r.ok, ~r.ok, i, i.pwaManager,
                           localStorage, idb, IF r.ok THEN Void ELSE Rejected)
         ELSE Complete("clearAllStats", Null, TRUE, FALSE, i, i.pwaManager,
                       Null, idb, Void)
      /\ scenario' = 0 - 1
      /\ UNCHANGED nSaves

\* The text a caller may hand to importStats: a prepared payload, or the
\* string the preceding exportStats returned.
ImportInputs ==
  ImportPayloads \cup
    (IF lastOp.name = "exportStats" /\ lastOp.ok THEN {ret.value} ELSE {})

\* The backups a caller may hand to restoreFromBackup.
BackupInputs ==
  {[data |-> d, timestamp |-> "2024-01-01T00:00:00.000Z", environment |-> e] :
     d \in ImportInputs, e \in {"web", "pwa"}}

KeyInputs == {generateSettingsKey(s) : s \in SettingsInputs}

MaxEntries == 2

\* The faults a call can meet.  A fault is drawn only where the call reaches
\* the operation it affects: indexedDB.open runs while no database handle is
\* open, put() runs on the structured backend, setItem on the flat one.
OpenFaults == IF env.isPWA /\ ~initialized THEN BOOLEAN ELSE {TRUE}
ReopenFaults == IF env.isPWA THEN BOOLEAN ELSE {TRUE}
PutFaults == IF env.isPWA THEN BOOLEAN ELSE {TRUE}
PutFailAts == IF env.isPWA THEN 0..MaxEntries ELSE {0}
SetItemFaults == IF env.isPWA THEN {TRUE} ELSE BOOLEAN

Next ==
  \/ \E openOK \in OpenFaults : InitManager(openOK)
  \/ \E settings \in SettingsInputs, isCorrect \in BOOLEAN, openOK \in OpenFaults,
        putOK \in PutFaults, setItemOK \in SetItemFaults :
       SaveStats(settings, isCorrect, openOK, putOK, setItemOK)
  \/ \E settings \in SettingsInputs, openOK \in OpenFaults : GetStats(settings, openOK)
  \/ \E openOK \in OpenFaults : GetAllStats(openOK)
  \/ \E settingsKey \in KeyInputs, openOK \in OpenFaults : GetStatsByKey(settingsKey, openOK)
  \/ \E openOK \in OpenFaults : ExportStats(openOK)
  \/ \E jsonData \in ImportInputs, openOK \in OpenFaults, setItemOK \in SetItemFaults,
        putFailAt \in PutFailAts :
       ImportStats(jsonData, openOK, putFailAt, setItemOK)
  \/ \E backup \in BackupInputs, openOK \in OpenFaults, setItemOK \in SetItemFaults,
        putFailAt \in PutFailAts :
       RestoreFromBackup(backup, openOK, putFailAt, setItemOK)
  \/ \E openOK \in OpenFaults, reopenOK \in ReopenFaults :
       ClearAllStats(openOK, reopenOK)

Spec == Init /\ [][Next]_vars

----------------------------------------------------------------------------
(* SpecSync: syncDataBetweenEnvironments.  The environment is memoized     *)
(* when the manager is constructed, while isPWA() asks matchMedia each     *)
(* time: the display mode may have changed since.                          *)

SyncRuntimes == Runtimes \cup { <<"browser", TRUE, FALSE>> }

DisplayModes == {"browser", "standalone"}

\* The window enters or leaves the standalone display.
ChangeDisplayMode(mode) ==
  /\ hasWindow /\ mode # displayMode
  /\ displayMode' = mode
  /\ lastOp' = [name |-> "displayModeChange", arg |-> Null, ok |-> TRUE, faulted |-> FALSE]
  /\ ret' = Void
  /\ UNCHANGED <<aggVars, hasWindow, hasServiceWorker, hasIndexedDB, mgrVars, storeVars,
                 scenario, nSaves, concVars, valVars>>

\* The branch "else if (this.env.hasIndexedDB)": [ok, store, faulted], the
\* outcome towards the caller, the object store afterwards, and whether an
\* error was caught.
\* A variant whose catch block throws the error on.
SyncToStructured_Rethrow(ls, store, pwaNow, openOK, putFailAt) ==
  LET webStats == getStatsFromStorage(ls)
  IN  IF Len(webStats) > 0
      THEN LET r == PWAM_importStats(NewPWAStatsManager, store, pwaNow,
                                     JSONstringify(webStats, 0), openOK, putFailAt)
           IN  [ok |-> r.ok, store |-> r.store, faulted |-> ~r.ok]
      ELSE [ok |-> TRUE, store |-> store, faulted |-> FALSE]

SyncToStructured(ls, store, pwaNow, openOK, putFailAt) ==
  LET webStats == getStatsFromStorage(ls)
  IN  IF Len(webStats) > 0
      THEN LET r == PWAM_importStats(NewPWAStatsManager, store, pwaNow,
                                     JSONstringify(webStats, 0), openOK, putFailAt)
           IN  [ok |-> TRUE, store |-> r.store, faulted |-> ~r.ok]
      ELSE [ok |-> TRUE, store |-> store, faulted |-> FALSE]

\* syncOpenOK and putFailAt say how the structured store would answer the
\* manager that the flat branch creates; setItemOK how the flat store does.
SyncDataBetweenEnvironments(openOK, syncOpenOK, putFailAt, setItemOK) ==
  LET i == USM_init(openOK)
      arg == [openOK |-> syncOpenOK, putFailAt |-> putFailAt, setItemOK |-> setItemOK]
      name == "syncDataBetweenEnvironments"
  IN  /\ IF ~i.ok THEN CompleteRejected(name, arg, i)
         ELSE IF UsesPWA(i)
         THEN LET r == PWAM_getAllStats(i.pwaManager, idb, PwaNow, openOK)
              IN  IF ~r.ok THEN CompletePWA(name, arg, i, r)
                  ELSE Complete(name, arg, TRUE, ~setItemOK, i, r.m,
                         saveStatsToStorage(localStorage, r.value.value, setItemOK),
                         idb, Void)
         ELSE IF env.hasIndexedDB
         THEN LET r == SyncToStructured(localStorage, idb, PwaNow, syncOpenOK, putFailAt)
              IN  Complete(name, arg, r.ok, r.faulted, i, i.pwaManager, localStorage,
                           r.store, IF r.ok THEN Void ELSE Rejected)
         ELSE Complete(name, arg, TRUE, FALSE, i, i.pwaManager, localStorage, idb, Void)
      /\ scenario' = 0 - 1
      /\ UNCHANGED nSaves

\* The faults the sync can meet: the structured store's answers matter to
\* the flat branch, the flat store's to the durable one.
SyncOpenFaults == IF env.isPWA \/ ~env.hasIndexedDB THEN {TRUE} ELSE BOOLEAN
SyncPutFailAts == IF env.isPWA \/ ~env.hasIndexedDB THEN {0} ELSE 0..MaxEntries
SyncSetItemFaults == IF env.isPWA THEN BOOLEAN ELSE {TRUE}

InitSync == InitFrom(SyncRuntimes)

NextSync ==
  \/ \E openOK \in OpenFaults, syncOpenOK \in SyncOpenFaults,
        putFailAt \in SyncPutFailAts, setItemOK \in SyncSetItemFaults :
       SyncDataBetweenEnvironments(openOK, syncOpenOK, putFailAt, setItemOK)
  \/ \E mode \in DisplayModes : ChangeDisplayMode(mode)
  \/ \E settings \in SettingsInputs, isCorrect \in BOOLEAN, openOK \in OpenFaults,
        putOK \in PutFaults, setItemOK \in SetItemFaults :
       SaveStats(settings, isCorrect, openOK, putOK, setItemOK)

SpecSync == InitSync /\ [][NextSync]_vars

----------------------------------------------------------------------------
(* SpecImport: importStats with the payloads a user may hand over: any     *)
(* JSON text that parses, whatever its records and whichever fingerprints  *)
(* it covers                                                               *)

\* A record whose window holds one answer more than MAX_RECENT_ANSWERS.
OversizeRecord ==
  [totalChallenges |-> MAX_RECENT_ANSWERS + 1,
   recentAnswers |-> [i \in 1..(MAX_RECENT_ANSWERS + 1) |-> TRUE],
   maxConsecutiveCorrect |-> MAX_RECENT_ANSWERS + 1,
   currentConsecutiveCorrect |-> MAX_RECENT_ANSWERS + 1,
   bestAccuracy |-> 100]

WidePayloads ==
  { JSONstringify(<< <<generateSettingsKey(Settings(5, 20)), ImportedRecord>> >>, 2),
    JSONstringify(<< <<generateSettingsKey(Settings(5, 20)), ImportedRecord>>,
                     <<generateSettingsKey(Settings(6, 20)), LegacyRecord>> >>, 2),
    JSONstringify(<< <<generateSettingsKey(Settings(4, 20)), OversizeRecord>> >>, 2) }

NextImport ==
  \/ \E jsonData \in WidePayloads, openOK \in OpenFaults, setItemOK \in SetItemFaults,
        putFailAt \in PutFailAts :
       ImportStats(jsonData, openOK, putFailAt, setItemOK)
  \/ \E settings \in SettingsInputs, isCorrect \in BOOLEAN, openOK \in OpenFaults,
        putOK \in PutFaults, setItemOK \in SetItemFaults :
       SaveStats(settings, isCorrect, openOK, putOK, setItemOK)
  \/ \E settings \in SettingsInputs, openOK \in OpenFaults : GetStats(settings, openOK)

SpecImport == Init /\ [][NextImport]_vars

----------------------------------------------------------------------------
(* SpecDetect: environment detection in every runtime, the window's        *)
(* display mode changing under it                                          *)

AllDisplayModes ==
  {"browser", "standalone", "fullscreen", "minimal-ui", "window-controls-overlay"}

\* detectEnvironment(): [ok, value].  Without a window isPWA() returns
\* false, and the test `"indexedDB" in window` that follows throws a
\* ReferenceError.  Every window of these runtimes has localStorage.
DetectEnvironmentCall ==
  IF ~hasWindow THEN [ok |-> FALSE, value |-> Rejected]
  ELSE [ok |-> TRUE,
        value |-> Returned("environment",
          [isPWA |-> PwaNow, isWeb |-> ~PwaNow, hasIndexedDB |-> hasIndexedDB,
           hasLocalStorage |-> TRUE,
           storageType |-> IF PwaNow THEN "indexeddb" ELSE "localStorage"])]

\* A runtime of any kind; nothing has been constructed in it yet.
InitDetect ==
  /\ \E win \in BOOLEAN, mode \in AllDisplayModes, sw \in BOOLEAN, ixdb \in BOOLEAN :
       /\ ~win => (mode = "browser" /\ ~ixdb)
       /\ hasWindow = win /\ displayMode = mode
       /\ hasServiceWorker = sw /\ hasIndexedDB = ixdb
  /\ env = [isPWA |-> FALSE, hasIndexedDB |-> FALSE]
  /\ initialized = FALSE /\ pwaManager = NoPWAManager
  /\ localStorage = Null /\ idb = EmptyStore
  /\ lastOp = [name |-> "none", arg |-> Null, ok |-> TRUE, faulted |-> FALSE]
  /\ ret = Void /\ scenario = 0 /\ nSaves = 0
  /\ stats = initializeStats /\ pstats = initializeStats /\ answers = <<>>
  /\ fromEmpty = TRUE /\ switches = 0 /\ bestFull = NaN
  /\ IdleConc /\ IdleValidate

\* isPWA() is called.
IsPWACall ==
  /\ lastOp' = [name |-> "isPWA", arg |-> Null, ok |-> TRUE, faulted |-> FALSE]
  /\ ret' = Returned("boolean", PwaNow)
  /\ UNCHANGED <<aggVars, ambient, mgrVars, storeVars, scenario, nSaves, concVars, valVars>>

\* new UnifiedStatsManager(): the field initializer calls detectEnvironment().
ConstructManager ==
  LET r == DetectEnvironmentCall
  IN  /\ lastOp' = [name |-> "detectEnvironment", arg |-> Null, ok |-> r.ok,
                    faulted |-> ~r.ok]
      /\ ret' = r.value
      /\ env' = IF r.ok
                THEN detectEnvironment(displayMode, hasServiceWorker, hasIndexedDB)
                ELSE env
      /\ initialized' = FALSE /\ pwaManager' = NoPWAManager
      /\ UNCHANGED <<aggVars, ambient, storeVars, scenario, nSaves, concVars, valVars>>

NextDetect ==
  \/ IsPWACall
  \/ ConstructManager
  \/ \E mode \in AllDisplayModes : ChangeDisplayMode(mode)

SpecDetect == InitDetect /\ [][NextDetect]_vars

----------------------------------------------------------------------------
(* SpecReads: every read operation of UnifiedStatsManager, with saveStats  *)
(* as the one write, over the stores an earlier release may have left.     *)

\* getEnvironmentInfo(): synchronous, no init().
GetEnvironmentInfo ==
  /\ Complete("getEnvironmentInfo", Null, TRUE, FALSE,
              [initialized |-> initialized], pwaManager, localStorage, idb,
              Returned("info", [isPWA |-> env.isPWA,
                                hasIndexedDB |-> env.hasIndexedDB,
                                initialized |-> initialized]))
  /\ UNCHANGED <<scenario, nSaves>>

\* Object.keys(statsMap).length
GetDatabaseSize(openOK) ==
  LET i == USM_init(openOK)
  IN  /\ IF ~i.ok THEN CompleteRejected("getDatabaseSize", Null, i)
         ELSE IF UsesPWA(i)
         THEN LET r == PWAM_getAllStats(i.pwaManager, idb, PwaNow, openOK)
              IN  CompletePWA("getDatabaseSize", Null, i,
                    IF r.ok THEN [r EXCEPT !.value = Returned("size", Len(@.value))]
                    ELSE r)
         ELSE Complete("getDatabaseSize", Null, TRUE, Unreadable(localStorage), i,
                       i.pwaManager, localStorage, idb,
                       Returned("size", Len(getStatsFromStorage(localStorage))))
      /\ UNCHANGED <<scenario, nSaves>>

BackupTimestamps == {"2024-01-01T00:00:00.000Z", "2024-01-02T00:00:00.000Z"}

\* createBackup(): init, exportStats, then the clock and the memoized
\* environment.
CreateBackup(timestamp, openOK) ==
  LET i == USM_init(openOK)
      environment == IF env.isPWA THEN "pwa" ELSE "web"
      Backup(data) == Returned("backup", [data |-> data, timestamp |-> timestamp,
                                          environment |-> environment])
  IN  /\ IF ~i.ok THEN CompleteRejected("createBackup", Null, i)
         ELSE IF UsesPWA(i)
         THEN LET r == PWAM_exportStats(i.pwaManager, idb, PwaNow, openOK)
              IN  CompletePWA("createBackup", Null, i,
                    IF r.ok THEN [r EXCEPT !.value = Backup(@.value)] ELSE r)
         ELSE Complete("createBackup", Null, TRUE, Unreadable(localStorage), i,
                       i.pwaManager, localStorage, idb,
                       Backup(JSONstringify(getStatsFromStorage(localStorage), 2)))
      /\ UNCHANGED <<scenario, nSaves>>

NextReads ==
  \/ \E settings \in SettingsInputs, isCorrect \in BOOLEAN, openOK \in OpenFaults,
        putOK \in PutFaults, setItemOK \in SetItemFaults :
       SaveStats(settings, isCorrect, openOK, putOK, setItemOK)
  \/ \E settings \in SettingsInputs, openOK \in OpenFaults : GetStats(settings, openOK)
  \/ \E openOK \in OpenFaults : GetAllStats(openOK)
  \/ \E settingsKey \in KeyInputs, openOK \in OpenFaults : GetStatsByKey(settingsKey, openOK)
  \/ \E openOK \in OpenFaults : GetDatabaseSize(openOK)
  \/ \E openOK \in OpenFaults : ExportStats(openOK)
  \/ \E timestamp \in BackupTimestamps, openOK \in OpenFaults :
       CreateBackup(timestamp, openOK)
  \/ GetEnvironmentInfo

SpecReads == Init /\ [][NextReads]_vars

----------------------------------------------------------------------------
(* SpecSettings: UnifiedSettingsManager over its two stores, next to the   *)
(* statistics manager constructed in the same runtime                      *)

\* UnifiedSettingsManager.init(): [ok, m].  The manager asks matchMedia for
\* the standalone display only; pwaManager is "null", or the state of the
\* PWASettingsManager's handle ("closed" = db null, "open").
SettingsManager_init(openOK) ==
  IF settingsManager.initialized THEN [ok |-> TRUE, m |-> settingsManager]
  ELSE IF ~hasWindow THEN [ok |-> FALSE, m |-> settingsManager]
  ELSE IF displayMode = "standalone" /\ hasServiceWorker /\ hasIndexedDB
       THEN IF openOK THEN [ok |-> TRUE, m |-> [initialized |-> TRUE, pwaManager |-> "open"]]
            ELSE [ok |-> FALSE, m |-> [initialized |-> FALSE, pwaManager |-> "closed"]]
       ELSE [ok |-> TRUE, m |-> [settingsManager EXCEPT !.initialized = TRUE]]

\* Both managers are constructed in a runtime with a window.
InitSettings ==
  /\ \E mode \in AllDisplayModes, sw \in BOOLEAN, ixdb \in BOOLEAN :
       /\ hasWindow = TRUE /\ displayMode = mode
       /\ hasServiceWorker = sw /\ hasIndexedDB = ixdb
  /\ env = detectEnvironment(displayMode, hasServiceWorker, hasIndexedDB)
  /\ initialized = FALSE /\ pwaManager = NoPWAManager
  /\ localStorage = Null /\ idb = EmptyStore
  /\ lastOp = [name |-> "none", arg |-> Null, ok |-> TRUE, faulted |-> FALSE]
  /\ ret = Void /\ scenario = 0 /\ nSaves = 0
  /\ stats = initializeStats /\ pstats = initializeStats /\ answers = <<>>
  /\ fromEmpty = TRUE /\ switches = 0 /\ bestFull = NaN
  /\ IdleConc /\ IdleValidate

\* The state a settings call leaves behind.
CompleteSettings(name, arg, ok, faulted, m, item, db, val) ==
  /\ settingsManager' = m /\ settingsItem' = item /\ settingsDB' = db
  /\ lastOp' = [name |-> name, arg |-> arg, ok |-> ok, faulted |-> faulted]
  /\ ret' = val
  /\ UNCHANGED <<aggVars, ambient, mgrVars, storeVars, scenario, nSaves, concVars,
                 partial, validated, gameVars>>

\* The record PWASettingsManager.saveSettings puts into the object store.
SettingsRecord(settings) ==
  [id |-> "current", settings |-> settings, version |-> "1.0.0"]

\* UnifiedSettingsManager.saveSettings: [ok, faulted, m, item, db].
USM_saveSettings(settings, openOK, putOK, setItemOK) ==
  LET i == SettingsManager_init(openOK)
  IN  IF ~i.ok \/ (i.m.pwaManager # "null" /\ (i.m.pwaManager # "open" \/ ~putOK))
      THEN [ok |-> FALSE, faulted |-> TRUE, m |-> i.m, item |-> settingsItem,
            db |-> settingsDB]
      ELSE IF i.m.pwaManager = "open"
      THEN [ok |-> TRUE, faulted |-> FALSE, m |-> i.m, item |-> settingsItem,
            db |-> Some(SettingsRecord(settings))]
      ELSE [ok |-> TRUE, faulted |-> ~setItemOK, m |-> i.m,
            item |-> saveSettingsToStorage(settingsItem, settings, setItemOK),
            db |-> settingsDB]

SaveSettings(settings, openOK, putOK, setItemOK) ==
  LET r == USM_saveSettings(settings, openOK, putOK, setItemOK)
  IN  CompleteSettings("saveSettings", settings, r.ok, r.faulted, r.m, r.item, r.db,
                       IF r.ok THEN Void ELSE Rejected)

LoadSettings(openOK) ==
  LET i == SettingsManager_init(openOK)
      name == "loadSettings"
  IN  IF ~i.ok \/ (i.m.pwaManager # "null" /\ i.m.pwaManager # "open")
      THEN CompleteSettings(name, Null, FALSE, TRUE, i.m, settingsItem, settingsDB,
                            Rejected)
      ELSE CompleteSettings(name, Null, TRUE, FALSE, i.m, settingsItem, settingsDB,
             Returned("settings",
               IF i.m.pwaManager = "open"
               THEN IF settingsDB = Null THEN DEFAULT_SETTINGS
                    ELSE validateSettings(settingsDB[1].settings)
               ELSE loadSettingsFromStorage(settingsItem)))

NextSettings ==
  \/ \E settings \in SettingsInputs, openOK \in BOOLEAN, putOK \in BOOLEAN,
        setItemOK \in BOOLEAN :
       SaveSettings(settings, openOK, putOK, setItemOK)
  \/ \E openOK \in BOOLEAN : LoadSettings(openOK)

SpecSettings == InitSettings /\ [][NextSettings]_vars

----------------------------------------------------------------------------
(* SpecGame: the GridMemoryGame component on its page, after the page's    *)
(* mount effects (manager init, loadSettings, first getStats) completed.   *)
(* A round is started by the Start, Next and Retry buttons and by the      *)
(* component's initial-round effect; setTimeout callbacks run when their   *)
(* delay has passed, in the order of their deadlines.                      *)

MaxRounds == 3
MaxTime == 1500

\* The cells the pattern is drawn from and the player touches.
GridCells == {1, 2}

\* Array(gridSize * gridSize).fill(false)
EmptyGrid(gridSize) == [i \in 1..(gridSize * gridSize) |-> FALSE]

\* generateGrid(): the grids Math.random can produce, the active cells taken
\* from GridCells where these suffice.
GridPool(gridSize, numActiveCells) ==
  IF numActiveCells <= Cardinality(GridCells)
  THEN GridCells \cap 1..(gridSize * gridSize)
  ELSE 1..MathMin(gridSize * gridSize, numActiveCells)

generateGrid(gridSize, numActiveCells) ==
  { [i \in 1..(gridSize * gridSize) |-> i \in S] :
      S \in {T \in SUBSET GridPool(gridSize, numActiveCells) :
               Cardinality(T) = MathMin(numActiveCells, gridSize * gridSize)} }

\* solution.every((cell, index) => cell === userGrid[index])
Matches(solution, userGrid) ==
  \A i \in 1..Len(solution) : i <= Len(userGrid) /\ solution[i] = userGrid[i]

\* The component returns "Loading..." instead of the board and its buttons.
Rendered(g) == ~(Len(g.solution) = 0 /\ ~g.showStartButton)

\* The state updates of resetGame and of the initial-round effect.
resetGame(g, newSolution) ==
  [g EXCEPT !.solution = newSolution, !.userGrid = EmptyGrid(g.settings.gridSize),
            !.showAnswer = TRUE, !.isFinished = FALSE, !.timerExpired = FALSE,
            !.isRetryMode = FALSE]

\* The state updates of retryGame.
retryGame(g) ==
  [g EXCEPT !.solution = g.previousSolution,
            !.userGrid = EmptyGrid(g.settings.gridSize),
            !.showAnswer = TRUE, !.isFinished = FALSE, !.timerExpired = FALSE,
            !.isRetryMode = TRUE]

\* The timeouts a round start schedules: showTimer, and answerTimer when
\* answerTime > 0.  Timeouts scheduled earlier have the smaller id.
ScheduledTimers(r, settings, now) ==
  {[id |-> 2 * r, round |-> r, kind |-> "show", deadline |-> now + settings.showTime]}
    \cup (IF settings.answerTime > 0
          THEN {[id |-> 2 * r + 1, round |-> r, kind |-> "answer",
                 deadline |-> now + settings.showTime + settings.answerTime]}
          ELSE {})

\* A variant that reports the answer of a retry round as well.
checkAnswer_ReportRetry(g) ==
  LET isCorrect == Matches(g.solution, g.userGrid)
      newConsecutive == g.consecutiveCorrect + 1
      finished == [g EXCEPT !.isFinished = TRUE]
  IN  IF g.isRetryMode THEN [game |-> finished, calls |-> <<isCorrect>>]
      ELSE [game |->
              [finished EXCEPT
                 !.previousSolution = g.solution,
                 !.consecutiveCorrect =
                   IF isCorrect /\ ~(newConsecutive >= g.settings.targetConsecutive
                                      /\ ~g.targetAchieved)
                   THEN newConsecutive ELSE 0,
                 !.targetAchieved =
                   isCorrect /\ newConsecutive >= g.settings.targetConsecutive
                             /\ ~g.targetAchieved],
            calls |-> <<isCorrect>>]

\* checkAnswer: [game, calls], the component afterwards and the arguments of
\* the onStatsUpdate calls made.
checkAnswer(g) ==
  LET isCorrect == Matches(g.solution, g.userGrid)
      newConsecutive == g.consecutiveCorrect + 1
      finished == [g EXCEPT !.isFinished = TRUE]
  IN  IF g.isRetryMode THEN [game |-> finished, calls |-> <<>>]
      ELSE [game |->
              [finished EXCEPT
                 !.previousSolution = g.solution,
                 !.consecutiveCorrect =
                   IF isCorrect /\ ~(newConsecutive >= g.settings.targetConsecutive
                                      /\ ~g.targetAchieved)
                   THEN newConsecutive ELSE 0,
                 !.targetAchieved =
                   isCorrect /\ newConsecutive >= g.settings.targetConsecutive
                             /\ ~g.targetAchieved],
            calls |-> <<isCorrect>>]

\* The GameSettings the page hands to saveStats and getStats.
currentSettings(g) ==
  [gridSize |-> g.settings.gridSize, showTime |-> g.settings.showTime,
   answerTime |-> g.settings.answerTime, numActiveCells |-> g.settings.numActiveCells]

StatsSettingsChanged(a, b) ==
  \/ a.gridSize # b.gridSize \/ a.showTime # b.showTime
  \/ a.answerTime # b.answerTime \/ a.numActiveCells # b.numActiveCells

\* The effect that caps numActiveCells by the number of cells.
AdjustActiveCells(settings) ==
  [settings EXCEPT
     !.numActiveCells = MathMin(@, settings.gridSize * settings.gridSize)]

\* applySettings after saveSettings settled: the component and the page
\* state afterwards.
applySettings(g, temp) ==
  LET validatedSettings == validateSettings(temp)
      isSettingsChanged == validatedSettings # g.settings
      updated == [g EXCEPT !.settings = AdjustActiveCells(validatedSettings)]
  IN  IF isSettingsChanged
      THEN [updated EXCEPT
              !.isInitialized = FALSE, !.solution = <<>>, !.userGrid = <<>>,
              !.showAnswer = TRUE, !.isFinished = FALSE, !.timerExpired = FALSE,
              !.isRetryMode = FALSE, !.previousSolution = <<>>,
              !.consecutiveCorrect = 0, !.targetAchieved = FALSE,
              !.showStartButton = TRUE]
      ELSE updated

\* The values the settings dialog may hold when Apply is pressed, and the
\* settings that may have been saved before the page was opened.
GameSettingsInputs ==
  {[gridSize |-> 2, showTime |-> 500, answerTime |-> a, numActiveCells |-> n,
    targetConsecutive |-> 2] : a \in {0, 1000}, n \in {1}}

SavedGameSettings == GameSettingsInputs

GameRuntimes == { <<"browser", TRUE, TRUE>>, <<"standalone", TRUE, TRUE>> }

InitGame ==
  /\ \E rt \in GameRuntimes :
       displayMode = rt[1] /\ hasServiceWorker = rt[2] /\ hasIndexedDB = rt[3]
  /\ hasWindow = TRUE
  /\ env = detectEnvironment(displayMode, hasServiceWorker, hasIndexedDB)
  /\ initialized = TRUE
  /\ pwaManager = IF env.isPWA THEN PWAM_init(NewPWAStatsManager, TRUE, TRUE).m
                  ELSE NoPWAManager
  /\ localStorage = Null /\ idb = EmptyStore
  /\ lastOp = [name |-> "none", arg |-> Null, ok |-> TRUE, faulted |-> FALSE]
  /\ ret = Void /\ scenario = 0 /\ nSaves = 0
  /\ stats = initializeStats /\ pstats = initializeStats /\ answers = <<>>
  /\ fromEmpty = TRUE /\ switches = 0 /\ bestFull = NaN
  /\ IdleConc
  /\ partial = [f \in {} |-> 0] /\ validated = DEFAULT_SETTINGS
  /\ \E saved \in SavedGameSettings :
       /\ settingsManager = [initialized |-> TRUE,
                             pwaManager |-> IF displayMode = "standalone" THEN "open"
                                            ELSE "null"]
       /\ settingsItem = IF displayMode = "standalone" THEN Null
                         ELSE saveSettingsToStorage(Null, saved, TRUE)
       /\ settingsDB = IF displayMode = "standalone" THEN Some(SettingsRecord(saved))
                       ELSE Null
       /\ game = [settings |->
                    IF displayMode = "standalone"
                    THEN validateSettings(settingsDB[1].settings)
                    ELSE loadSettingsFromStorage(settingsItem),
                  consecutiveCorrect |-> 0, targetAchieved |-> FALSE,
                  showStartButton |-> TRUE, isInitialized |-> FALSE,
                  solution |-> <<>>, previousSolution |-> <<>>, userGrid |-> <<>>,
                  showAnswer |-> TRUE, isFinished |-> FALSE, timerExpired |-> FALSE,
                  isRetryMode |-> FALSE, currentStats |-> Some(initializeStats)]
  /\ timers = {} /\ clock = 0
  /\ round = [id |-> 0, startedBy |-> "none", answerTime |-> 0]
  /\ gameEvent = [name |-> "mount", timer |-> Null, calls |-> <<>>]

\* What no step of the component touches.
GameFrame ==
  UNCHANGED <<aggVars, ambient, env, ghostVars, concVars, partial, validated>>

ComponentFrame ==
  /\ GameFrame
  /\ UNCHANGED <<initialized, pwaManager, storeVars, setVars>>

\* A round begins; `scheduled` tells whether its timeouts stay pending.
BeginRound(by, g, scheduled) ==
  /\ round.id < MaxRounds
  /\ game' = g
  /\ round' = [id |-> round.id + 1, startedBy |-> by,
               answerTime |-> game.settings.answerTime]
  /\ timers' = IF scheduled
               THEN timers \cup ScheduledTimers(round.id + 1, game.settings, clock)
               ELSE timers
  /\ gameEvent' = [name |-> by, timer |-> Null, calls |-> <<>>]
  /\ UNCHANGED clock
  /\ ComponentFrame

\* The title is pressed while the Start button shows: handleShowSplash
\* clears isFirstTime, and the initial-round effect runs.  The effect sets
\* isInitialized, a dependency of its own, so that its cleanup runs at the
\* next render and clears the two timeouts it has just scheduled.
ShowSplash ==
  /\ Rendered(game) /\ game.showStartButton
  /\ LET shown == [game EXCEPT !.showStartButton = FALSE]
     IN  IF ~shown.isInitialized /\ ~shown.showStartButton
         THEN \E newSolution \in generateGrid(game.settings.gridSize,
                                              game.settings.numActiveCells) :
                BeginRound("effect",
                           [resetGame(shown, newSolution) EXCEPT !.isInitialized = TRUE],
                           FALSE)
         ELSE /\ game' = shown
              /\ gameEvent' = [name |-> "splash", timer |-> Null, calls |-> <<>>]
              /\ UNCHANGED <<timers, clock, round>>
              /\ ComponentFrame

\* startGame: onGameStart, setIsInitialized(true), resetGame().
StartGame ==
  /\ Rendered(game) /\ game.showStartButton
  /\ \E newSolution \in generateGrid(game.settings.gridSize,
                                     game.settings.numActiveCells) :
       BeginRound("Start",
                  [resetGame(game, newSolution) EXCEPT !.showStartButton = FALSE,
                                                       !.isInitialized = TRUE],
                  TRUE)

\* The Next button runs resetGame.
NextGame ==
  /\ Rendered(game) /\ ~game.showStartButton
  /\ game.isFinished \/ game.timerExpired
  /\ Matches(game.solution, game.userGrid)
  /\ \E newSolution \in generateGrid(game.settings.gridSize,
                                     game.settings.numActiveCells) :
       BeginRound("Next", resetGame(game, newSolution), TRUE)

RetryGame ==
  /\ Rendered(game) /\ ~game.showStartButton
  /\ game.isFinished \/ game.timerExpired
  /\ ~Matches(game.solution, game.userGrid)
  /\ BeginRound("Retry", retryGame(game), TRUE)

\* toggleCell returns at once while the pattern shows, after the round is
\* over and before the game started.
ToggleCell(index) ==
  /\ Rendered(game)
  /\ ~(game.showAnswer \/ game.isFinished \/ game.timerExpired \/ game.showStartButton)
  /\ index \in 1..Len(game.userGrid)
  /\ game' = [game EXCEPT !.userGrid[index] = ~@]
  /\ gameEvent' = [name |-> "toggle", timer |-> Null, calls |-> <<>>]
  /\ UNCHANGED <<timers, clock, round>>
  /\ ComponentFrame

\* handleStatsUpdate(isCorrect) on the page showing g: saveStats, then
\* getStats and setCurrentStats.  A rejection of saveStats or getStats ends
\* the handler.
handleStatsUpdate(g, isCorrect, openOK, putOK, setItemOK) ==
  LET i == USM_init(openOK)
  IN  IF ~i.ok
      THEN /\ initialized' = i.initialized /\ pwaManager' = i.pwaManager
           /\ game' = g
           /\ UNCHANGED storeVars
      ELSE IF UsesPWA(i)
      THEN LET saved == PWAM_saveStats(i.pwaManager, idb, PwaNow, currentSettings(g),
                                       isCorrect, openOK, putOK)
               read == PWAM_getStats(saved.m, saved.store, PwaNow, currentSettings(g),
                                     openOK)
           IN  /\ initialized' = i.initialized
               /\ localStorage' = localStorage
               /\ IF ~saved.ok
                  THEN pwaManager' = saved.m /\ idb' = saved.store /\ game' = g
                  ELSE /\ pwaManager' = read.m /\ idb' = read.store
                       /\ game' = IF read.ok
                                  THEN [g EXCEPT !.currentStats =
                                          Some(MigrateRecord(read.value.value))]
                                  ELSE g
      ELSE LET statsMap == getStatsFromStorage(localStorage)
               updatedStatsMap ==
                 updateStatsForSettings(statsMap, currentSettings(g), isCorrect)
               ls == saveStatsToStorage(localStorage, updatedStatsMap, setItemOK)
           IN  /\ initialized' = i.initialized /\ pwaManager' = i.pwaManager
               /\ localStorage' = ls /\ idb' = idb
               /\ game' = [g EXCEPT !.currentStats =
                             Some(getStatsForSettings(getStatsFromStorage(ls),
                                                      currentSettings(g)))]

\* The Check button: checkAnswer, and the page's handler for each
\* onStatsUpdate call it makes.
CheckAnswer(openOK, putOK, setItemOK) ==
  /\ Rendered(game) /\ ~game.showStartButton
  /\ ~game.isFinished /\ ~game.timerExpired
  /\ LET r == checkAnswer(game)
     IN  /\ IF r.calls = <<>>
            THEN game' = r.game /\ UNCHANGED <<initialized, pwaManager, storeVars>>
            ELSE handleStatsUpdate(r.game, r.calls[1], openOK, putOK, setItemOK)
         /\ gameEvent' = [name |-> "Check", timer |-> Null, calls |-> r.calls]
  /\ UNCHANGED <<timers, clock, round, setVars>>
  /\ GameFrame

\* The Apply button of the settings dialog: validateSettings, saveSettings
\* (a failure is logged), then the state updates; where one of the four
\* settings of the statistics changed, the page asks getStats again.
ApplySettings(temp, openOK, putOK, setItemOK) ==
  /\ Rendered(game)
  /\ validateSettings(temp) # game.settings => round.id < MaxRounds
  /\ LET r == USM_saveSettings(validateSettings(temp), openOK, putOK, setItemOK)
         applied == applySettings(game, temp)
         asked == StatsSettingsChanged(applied.settings, game.settings)
         i == USM_init(TRUE)
         read == IF UsesPWA(i)
                 THEN PWAM_getStats(i.pwaManager, idb, PwaNow,
                                    currentSettings(applied), TRUE).value.value
                 ELSE getStatsForSettings(getStatsFromStorage(localStorage),
                                          currentSettings(applied))
     IN  /\ settingsManager' = r.m /\ settingsItem' = r.item /\ settingsDB' = r.db
         /\ game' = IF asked
                    THEN [applied EXCEPT !.currentStats = Some(MigrateRecord(read))]
                    ELSE applied
         /\ round' = IF validateSettings(temp) # game.settings
                     THEN [id |-> round.id + 1, startedBy |-> "none",
                           answerTime |-> 0]
                     ELSE round
  /\ gameEvent' = [name |-> "applySettings", timer |-> Null, calls |-> <<>>]
  /\ UNCHANGED <<timers, clock, initialized, pwaManager, storeVars>>
  /\ GameFrame

\* The timeout that is due first runs its callback.
FireTimer(t) ==
  /\ t \in timers /\ t.deadline <= clock
  /\ \A u \in timers :
       ~(u.deadline < t.deadline \/ (u.deadline = t.deadline /\ u.id < t.id))
  /\ timers' = timers \ {t}
  /\ game' = IF t.kind = "show" THEN [game EXCEPT !.showAnswer = FALSE]
             ELSE [game EXCEPT !.timerExpired = TRUE]
  /\ gameEvent' = [name |-> "timeout", timer |-> Some(t), calls |-> <<>>]
  /\ UNCHANGED <<clock, round>>
  /\ ComponentFrame

\* Half a second passes; the timeouts that were due have run.
Tick ==
  /\ clock + 500 <= MaxTime
  /\ \A t \in timers : t.deadline > clock
  /\ clock' = clock + 500
  /\ gameEvent' = [name |-> "tick", timer |-> Null, calls |-> <<>>]
  /\ UNCHANGED <<game, timers, round>>
  /\ ComponentFrame

NextGameSteps ==
  \/ ShowSplash
  \/ StartGame
  \/ NextGame
  \/ RetryGame
  \/ \E index \in GridCells : ToggleCell(index)
  \/ CheckAnswer(TRUE, TRUE, TRUE)
  \/ \E temp \in GameSettingsInputs : ApplySettings(temp, TRUE, TRUE, TRUE)
  \/ \E t \in timers : FireTimer(t)
  \/ Tick

SpecGame == InitGame /\ [][NextGameSteps]_vars

\* Answers are recorded one after the other and nothing else is called.
NextScenario ==
  \E settings \in SettingsInputs, isCorrect \in BOOLEAN, openOK \in OpenFaults,
     putOK \in PutFaults, setItemOK \in SetItemFaults :
    ScenarioSave(settings, isCorrect, openOK, putOK, setItemOK)

SpecScenario == Init /\ [][NextScenario]_vars

----------------------------------------------------------------------------
(* SpecConc: facade calls in flight at the same time.  A call runs until   *)
(* its next await; what follows the await is a later step, and the steps   *)
(* of the two callers interleave.  The stores are healthy.  Objects live   *)
(* in mgrs and dbs: a PWAStatsManager is [db, initialized] with db an      *)
(* index into dbs (0 = null), a PWAStatsDatabase is the state of its       *)
(* handle, "closed" (db null, open requested) or "open".                   *)

ConcOps == {"init", "saveStats", "getStats"}
ConcSettings == {Settings(4, 20), Settings(5, 20)}

Task(t) == tasks[t]
SetTask(t, r) == tasks' = [tasks EXCEPT ![t] = r]
Frame == UNCHANGED <<aggVars, ambient, env, pwaManager, ghostVars, valVars>>

\* The pc of a call whose "await this.init()" has been passed.
PastInit(op) == IF op = "init" THEN "done" ELSE "afterInit"

\* PWAStatsManager.init() up to its await, on the manager mgrs[m]:
\* [mgrs, dbs, d, waits] afterwards, waits = an open request is pending.
EnterManagerInit(ms, ds, m) ==
  IF ms[m].initialized THEN [mgrs |-> ms, dbs |-> ds, d |-> ms[m].db, waits |-> FALSE]
  ELSE IF PwaNow
       THEN [mgrs |-> [ms EXCEPT ![m].db = Len(ds) + 1],
             dbs |-> Append(ds, "closed"), d |-> Len(ds) + 1, waits |-> TRUE]
       ELSE [mgrs |-> [ms EXCEPT ![m].initialized = TRUE],
             dbs |-> ds, d |-> ms[m].db, waits |-> FALSE]

\* A facade call is issued: it runs init() up to the first await.
Issue(t, op, settings, isCorrect) ==
  /\ Task(t).pc = "idle"
  /\ IF initialized
     THEN /\ SetTask(t, [Task(t) EXCEPT !.op = op, !.settings = settings,
                          !.isCorrect = isCorrect, !.pc = PastInit(op)])
          /\ UNCHANGED <<initialized, mgrs, dbs, pwaRef>>
     ELSE IF env.isPWA
     THEN LET m == Len(mgrs) + 1
              e == EnterManagerInit(Append(mgrs, [db |-> 0, initialized |-> FALSE]), dbs, m)
          IN  /\ mgrs' = e.mgrs /\ dbs' = e.dbs /\ pwaRef' = m
              /\ SetTask(t, [Task(t) EXCEPT !.op = op, !.settings = settings,
                              !.isCorrect = isCorrect, !.m = m, !.d = e.d,
                              !.pc = IF e.waits THEN "opening" ELSE "initTail"])
              /\ UNCHANGED initialized
     ELSE /\ initialized' = TRUE
          /\ SetTask(t, [Task(t) EXCEPT !.op = op, !.settings = settings,
                          !.isCorrect = isCorrect, !.pc = PastInit(op)])
          /\ UNCHANGED <<mgrs, dbs, pwaRef>>
  /\ UNCHANGED <<storeVars, queue>>
  /\ Frame

\* indexedDB.open succeeds: request.onsuccess stores the handle.
OpenDone(t) ==
  /\ Task(t).pc \in {"opening", "pOpening"}
  /\ dbs' = [dbs EXCEPT ![Task(t).d] = "open"]
  /\ SetTask(t, [Task(t) EXCEPT
                   !.pc = IF @ = "opening" THEN "mgrInitTail" ELSE "pInitTail"])
  /\ UNCHANGED <<initialized, mgrs, pwaRef, storeVars, queue>>
  /\ Frame

\* PWAStatsManager.init after "await this.db.init()": this.initialized = true.
ManagerInitTail(t) ==
  /\ Task(t).pc \in {"mgrInitTail", "pInitTail"}
  /\ mgrs' = [mgrs EXCEPT ![Task(t).m].initialized = TRUE]
  /\ SetTask(t, [Task(t) EXCEPT
                   !.pc = IF @ = "mgrInitTail" THEN "initTail" ELSE "pAfterInit"])
  /\ UNCHANGED <<initialized, dbs, pwaRef, storeVars, queue>>
  /\ Frame

\* UnifiedStatsManager.init after "await this.pwaManager.init()".
InitTail(t) ==
  /\ Task(t).pc = "initTail"
  /\ initialized' = TRUE
  /\ SetTask(t, [Task(t) EXCEPT !.pc = PastInit(Task(t).op)])
  /\ UNCHANGED <<mgrs, dbs, pwaRef, storeVars, queue>>
  /\ Frame

\* The facade call after "await this.init()": the flat branch runs to its
\* end, the other one enters the PWAStatsManager's method up to its await.
AfterInit(t) ==
  /\ Task(t).pc = "afterInit"
  /\ IF env.isPWA /\ pwaRef # 0
     THEN LET e == EnterManagerInit(mgrs, dbs, pwaRef)
          IN  /\ mgrs' = e.mgrs /\ dbs' = e.dbs
              /\ SetTask(t, [Task(t) EXCEPT !.m = pwaRef, !.d = e.d,
                              !.pc = IF e.waits THEN "pOpening" ELSE "pAfterInit"])
              /\ UNCHANGED localStorage
     ELSE LET statsMap == getStatsFromStorage(localStorage)
          IN  /\ IF Task(t).op = "saveStats"
                 THEN /\ localStorage' =
                           saveStatsToStorage(localStorage,
                             updateStatsForSettings(statsMap, Task(t).settings,
                                                    Task(t).isCorrect), TRUE)
                      /\ SetTask(t, [Task(t) EXCEPT !.pc = "done",
                             !.cur = getStatsForSettings(statsMap, Task(t).settings)])
                 ELSE /\ UNCHANGED localStorage
                      /\ SetTask(t, [Task(t) EXCEPT !.pc = "done",
                             !.cur = getStatsForSettings(statsMap, Task(t).settings)])
              /\ UNCHANGED <<mgrs, dbs>>
  /\ UNCHANGED <<initialized, pwaRef, idb, queue>>
  /\ Frame

\* this.db.<request>: the PWAStatsDatabase the manager refers to now must
\* hold an open handle ("Database not initialized" otherwise).
CanRequest(m) == mgrs[m].db # 0 /\ dbs[mgrs[m].db] = "open"

\* The PWAStatsManager's method after "await this.init()": db.getStats.
ManagerAfterInit(t) ==
  /\ Task(t).pc = "pAfterInit"
  /\ IF CanRequest(Task(t).m)
     THEN /\ SetTask(t, [Task(t) EXCEPT !.pc = "getPending", !.d = mgrs[Task(t).m].db])
          /\ queue' = Append(queue, t)
     ELSE /\ SetTask(t, [Task(t) EXCEPT !.pc = "done", !.ok = FALSE])
          /\ UNCHANGED queue
  /\ UNCHANGED <<initialized, mgrs, dbs, pwaRef, storeVars>>
  /\ Frame

\* (await this.db.getStats(settingsKey)) || initializeStats()
currentStatsOr(found) == IF found = Null THEN PWA_initializeStats ELSE found[1]

\* The object store serves the oldest pending request: a get reads the
\* store as it is now, a put writes the value it was handed.
RequestDone ==
  /\ queue # <<>>
  /\ LET t == Head(queue)
         settingsKey == PWA_generateSettingsKey(Task(t).settings)
         found == DB_getStats(idb, settingsKey)
     IN  IF Task(t).pc = "getPending"
         THEN /\ SetTask(t, [Task(t) EXCEPT !.pc = "afterGet",
                                             !.cur = currentStatsOr(found)])
              /\ UNCHANGED idb
         ELSE /\ idb' = DB_saveStats(idb, settingsKey, Task(t).upd)
              /\ SetTask(t, [Task(t) EXCEPT !.pc = "done",
                                             !.stale = (currentStatsOr(found) # Task(t).cur)])
  /\ queue' = Tail(queue)
  /\ UNCHANGED <<initialized, mgrs, dbs, pwaRef, localStorage>>
  /\ Frame

\* After the read: getStats returns the record, saveStats hands the updated
\* record to db.saveStats.
AfterGet(t) ==
  /\ Task(t).pc = "afterGet"
  /\ IF Task(t).op = "getStats"
     THEN /\ SetTask(t, [Task(t) EXCEPT !.pc = "done", !.cur = MigrateRecord(@)])
          /\ UNCHANGED queue
     ELSE IF CanRequest(Task(t).m)
     THEN /\ SetTask(t, [Task(t) EXCEPT !.pc = "putPending",
                            !.d = mgrs[Task(t).m].db,
                            !.upd = PWA_updateStats(Task(t).cur, Task(t).isCorrect)])
          /\ queue' = Append(queue, t)
     ELSE /\ SetTask(t, [Task(t) EXCEPT !.pc = "done", !.ok = FALSE])
          /\ UNCHANGED queue
  /\ UNCHANGED <<initialized, mgrs, dbs, pwaRef, storeVars>>
  /\ Frame

NextConc ==
  \/ \E t \in Callers, op \in ConcOps, settings \in ConcSettings, isCorrect \in BOOLEAN :
       /\ op # "saveStats" => isCorrect
       /\ op = "init" => settings = Settings(4, 20)
       /\ Issue(t, op, settings, isCorrect)
  \/ \E t \in Callers : OpenDone(t)
  \/ \E t \in Callers : ManagerInitTail(t)
  \/ \E t \in Callers : InitTail(t)
  \/ \E t \in Callers : AfterInit(t)
  \/ \E t \in Callers : ManagerAfterInit(t)
  \/ RequestDone
  \/ \E t \in Callers : AfterGet(t)

SpecConc == Init /\ [][NextConc]_vars

----------------------------------------------------------------------------
(* SpecValidate: validateSettings on partial settings                      *)

\* The values a caller may hand in for each field; a field may be absent.
GridSizeInputs == {0 - 3, 0, 1, 2, 8, 9, 10}
ShowTimeInputs == {0, 99, 100, 500, 10001}
AnswerTimeInputs == {0 - 1, 0, 1, 30000, 30001}
NumActiveCellsInputs == {0 - 2, 0, 1, 5, 10, 64, 65, 90}
TargetConsecutiveInputs == {0, 1, 100, 101}

Optional(S) == {Null} \cup {Some(v) : v \in S}

\* The object literal with the fields that are present.
PartialSettings(g, st, at, n, tc) ==
  LET given == [gridSize |-> g, showTime |-> st, answerTime |-> at,
                numActiveCells |-> n, targetConsecutive |-> tc]
  IN  [f \in {x \in SettingsFields : given[x] # Null} |-> given[f][1]]

Validated(name) == [name |-> name, arg |-> Null, ok |-> TRUE, faulted |-> FALSE]

\* The settings dialog holds any of the inputs; nothing is validated yet.
InitValidate ==
  /\ \E g \in Optional(GridSizeInputs), st \in Optional(ShowTimeInputs),
        at \in Optional(AnswerTimeInputs), n \in Optional(NumActiveCellsInputs),
        tc \in Optional(TargetConsecutiveInputs) :
       partial = PartialSettings(g, st, at, n, tc)
  /\ validated = DEFAULT_SETTINGS
  /\ stats = initializeStats /\ pstats = initializeStats /\ answers = <<>>
  /\ fromEmpty = TRUE /\ switches = 0 /\ bestFull = NaN
  /\ IdleStore /\ IdleConc /\ IdleSettings /\ IdleGame

\* applySettings: the values of the settings dialog are validated.
Validate ==
  /\ lastOp.name = "none"
  /\ validated' = validateSettings(partial)
  /\ lastOp' = Validated("validateSettings")
  /\ UNCHANGED <<aggVars, ambient, mgrVars, storeVars, ret, scenario, nSaves,
                 concVars, partial, setVars, gameVars>>

\* loadSettingsFromStorage: settings that were validated when they were
\* saved are validated again when they are loaded.
ValidateStored ==
  /\ lastOp.name = "validateSettings"
  /\ partial' = validated
  /\ validated' = validateSettings(validated)
  /\ lastOp' = Validated("loadSettingsFromStorage")
  /\ UNCHANGED <<aggVars, ambient, mgrVars, storeVars, ret, scenario, nSaves, concVars,
                 setVars, gameVars>>

NextValidate == Validate \/ ValidateStored

SpecValidate == InitValidate /\ [][NextValidate]_vars

----------------------------------------------------------------------------
(* SpecValidateJS: validateSettings on a settings object read from the     *)
(* store, whose fields may hold any JSON value                             *)

\* 0, a number in every range, NaN, "abc", "6", "" and null.
JSInputs ==
  {JSNumber(0), JSNumber(120), JSNaN, JSString(TRUE, 0, FALSE),
   JSString(FALSE, 6, FALSE), JSString(FALSE, 0, TRUE), JSNull}

InitValidateJS ==
  /\ \E g \in Optional(JSInputs), st \in Optional(JSInputs), at \in Optional(JSInputs),
        n \in Optional(JSInputs), tc \in Optional(JSInputs) :
       partial = PartialSettings(g, st, at, n, tc)
  /\ validated = DEFAULT_SETTINGS
  /\ stats = initializeStats /\ pstats = initializeStats /\ answers = <<>>
  /\ fromEmpty = TRUE /\ switches = 0 /\ bestFull = NaN
  /\ IdleStore /\ IdleConc /\ IdleSettings /\ IdleGame

\* loadSettings: validateSettings(data.settings) on what the store holds.
ValidateJS ==
  /\ lastOp.name = "none"
  /\ validated' = validateSettingsJS(partial)
  /\ lastOp' = Validated("validateSettings")
  /\ UNCHANGED <<aggVars, ambient, mgrVars, storeVars, ret, scenario, nSaves,
                 concVars, partial, setVars, gameVars>>

\* The validated settings are saved and validated again on the next load.
ValidateStoredJS ==
  /\ lastOp.name = "validateSettings"
  /\ partial' = validated
  /\ validated' = validateSettingsJS(validated)
  /\ lastOp' = Validated("loadSettingsFromStorage")
  /\ UNCHANGED <<aggVars, ambient, mgrVars, storeVars, ret, scenario, nSaves, concVars,
                 setVars, gameVars>>

NextValidateJS == ValidateJS \/ ValidateStoredJS

SpecValidateJS == InitValidateJS /\ [][NextValidateJS]_vars

----------------------------------------------------------------------------
(* Properties of the aggregator, checked under SpecAgg                     *)

LastAnswer(seq) == seq[Len(seq)]

\* The last n elements of seq.
LastN(seq, n) == SubSeq(seq, Len(seq) - n + 1, Len(seq))

\* C2: whenever the window holds 100 answers, bestAccuracy is the highest
\* accuracy among the states in which the window held 100 answers; shorter
\* windows never contribute.
C2_BestOfFullWindows ==
  (fromEmpty /\ Len(stats.recentAnswers) = 100) => stats.bestAccuracy = bestFull

\* C3: from the empty record the window never holds more than 100 answers,
\* and after more than 100 updates it is exactly the last 100 outcomes in
\* their original order.
C3_WindowIsLast100 ==
  fromEmpty =>
    /\ Len(stats.recentAnswers) <= 100 /\ Len(pstats.recentAnswers) <= 100
    /\ Len(answers) > 100 =>
         /\ stats.recentAnswers = LastN(answers, 100)
         /\ pstats.recentAnswers = LastN(answers, 100)

\* After 101 updates the first answer (a lone TRUE) is gone from the window.
C3_Witness ==
  /\ fromEmpty /\ Len(answers) = 101 /\ answers[1] = TRUE /\ answers[2] = FALSE
  /\ Len(stats.recentAnswers) = 100 /\ CountTrue(stats.recentAnswers) = 0

\* C4: across update calls bestAccuracy and maxConsecutiveCorrect never
\* decrease, and the new maxConsecutiveCorrect is the larger of the previous
\* one and the new currentConsecutiveCorrect.
C4_Monotonic ==
  [][ /\ stats'.bestAccuracy >= stats.bestAccuracy
      /\ stats'.maxConsecutiveCorrect >= stats.maxConsecutiveCorrect
      /\ stats'.maxConsecutiveCorrect =
           Max(stats.maxConsecutiveCorrect, stats'.currentConsecutiveCorrect)
      /\ pstats'.bestAccuracy >= pstats.bestAccuracy
      /\ pstats'.maxConsecutiveCorrect =
           Max(pstats.maxConsecutiveCorrect, pstats'.currentConsecutiveCorrect) ]_vars

\* Both maxima stand above the current values: a streak was broken and the
\* accuracy has fallen since its best.
C4_Witness ==
  /\ Len(answers) >= 3
  /\ stats.maxConsecutiveCorrect > stats.currentConsecutiveCorrect
  /\ stats.currentConsecutiveCorrect = 0
  /\ stats.bestAccuracy > Accuracy(stats.recentAnswers)

\* C5: update sets currentConsecutiveCorrect to 0 on a false outcome and to
\* the previous value plus one on a true outcome.
C5_Streak ==
  [][ answers' # answers =>
        /\ stats'.currentConsecutiveCorrect =
             IF LastAnswer(answers') THEN stats.currentConsecutiveCorrect + 1 ELSE 0
        /\ pstats'.currentConsecutiveCorrect =
             IF LastAnswer(answers') THEN pstats.currentConsecutiveCorrect + 1 ELSE 0 ]_vars

\* A streak of several correct answers has just been reset by a wrong one.
C5_Witness ==
  /\ Len(answers) >= 3
  /\ answers[Len(answers) - 1] = TRUE /\ LastAnswer(answers) = FALSE
  /\ pstats.currentConsecutiveCorrect = 0 /\ pstats.maxConsecutiveCorrect >= 2

\* C6: after update, bestAccuracy = max(previous bestAccuracy, accuracy of
\* the new window), accuracy being round(100 * count(true) / length) with
\* halves rounded up, for every window of length 0..100.
C6_BestIsMaxOfExactAccuracy ==
  [][ answers' # answers =>
        stats'.bestAccuracy =
          Max(stats.bestAccuracy, Accuracy(stats'.recentAnswers)) ]_vars

----------------------------------------------------------------------------
(* Properties of the persistence layer, checked under Spec                 *)

\* The records persisted in the backend the manager selected, as stored.
RawFlat ==
  IF localStorage = Null \/ ~JSONparseOK(localStorage[1]) THEN EmptyStore
  ELSE AsMap(JSONparse(localStorage[1]))

StoredMap == IF env.isPWA THEN idb ELSE RawFlat

\* The map getAllStats hands out in this state, property order forgotten.
VisibleMap ==
  IF env.isPWA THEN AsMap(DB_getAllStats(idb))
  ELSE AsMap(getStatsFromStorage(localStorage))

\* The record a reader of settings t is given in this state.
VisibleFor(t) ==
  IF env.isPWA
  THEN LET found == DB_getStats(idb, PWA_generateSettingsKey(t))
       IN  IF found = Null THEN PWA_initializeStats ELSE found[1]
  ELSE getStatsForSettings(getStatsFromStorage(localStorage), t)

IsLegacy(r) == "bestAccuracy" \notin DOMAIN r

ScenarioKey == generateSettingsKey(ScenarioSettings)

ScenarioRecord(best) ==
  [totalChallenges |-> 4, recentAnswers |-> <<TRUE, TRUE, FALSE, TRUE>>,
   maxConsecutiveCorrect |-> 2, currentConsecutiveCorrect |-> 1,
   bestAccuracy |-> best]

\* C1 as stated: from an empty map, saveStats with the default settings and
\* outcomes true, true, false, true leaves totalChallenges=4,
\* recentAnswers=[true,true,false,true], currentConsecutiveCorrect=1,
\* maxConsecutiveCorrect=2, bestAccuracy=75.
C1_ScenarioBest75 ==
  scenario = 4 =>
    ScenarioKey \in DOMAIN StoredMap /\ StoredMap[ScenarioKey] = ScenarioRecord(75)

\* C1 as amended: the same scenario leaves the same record with
\* bestAccuracy=100 (the accuracy after the first answer).
C1_ScenarioBest100 ==
  scenario = 4 =>
    ScenarioKey \in DOMAIN StoredMap /\ StoredMap[ScenarioKey] = ScenarioRecord(100)

\* The four answers of the scenario have been stored, one call at a time.
C1_Witness == scenario = 4 /\ nSaves = 4 /\ lastOp.name = "saveStats"

FourAgree(s, t) ==
  /\ s.gridSize = t.gridSize /\ s.showTime = t.showTime
  /\ s.answerTime = t.answerTime /\ s.numActiveCells = t.numActiveCells

\* Settings Records on which the fingerprints are compared.
SettingsDomain ==
  SettingsInputs \cup
    { [gridSize |-> 4, showTime |-> 100, answerTime |-> 0, numActiveCells |-> 12,
       targetConsecutive |-> 20],
      [gridSize |-> 4, showTime |-> 1000, answerTime |-> 1, numActiveCells |-> 2,
       targetConsecutive |-> 20],
      [gridSize |-> 4, showTime |-> 500, answerTime |-> 5, numActiveCells |-> 5,
       targetConsecutive |-> 1],
      [gridSize |-> 4, showTime |-> 500, answerTime |-> 0, numActiveCells |-> 6,
       targetConsecutive |-> 100] }

\* Fingerprints coincide exactly where the four fields do.
FingerprintIffFourAgree ==
  \A s, t \in SettingsDomain :
    /\ (generateSettingsKey(s) = generateSettingsKey(t)) <=> FourAgree(s, t)
    /\ (PWA_generateSettingsKey(s) = PWA_generateSettingsKey(t)) <=> FourAgree(s, t)

\* C7: two Settings Records have the same fingerprint iff they agree on
\* gridSize, showTime, answerTime and numActiveCells; records differing only
\* in targetConsecutive share one StatisticsRecord, records differing in one
\* of the four fields have separate ones: a stored answer changes what a
\* reader of t sees exactly when t agrees with the settings it was saved for.
C7_Fingerprint ==
  [][ /\ FingerprintIffFourAgree
      /\ (lastOp'.name = "saveStats" /\ lastOp'.ok /\ ~lastOp'.faulted) =>
           \A t \in SettingsInputs :
             (VisibleFor(t)' # VisibleFor(t)) <=> FourAgree(lastOp'.arg[1], t) ]_vars

\* An answer saved under targetConsecutive 10 has joined the record of the
\* default settings, and the 5x5 grid has a record of its own.
C7_Witness ==
  /\ lastOp.name = "saveStats" /\ lastOp.ok /\ ~lastOp.faulted
  /\ lastOp.arg[1] = Settings(4, 10)
  /\ VisibleFor(Settings(4, 20)).totalChallenges >= 2
  /\ VisibleFor(Settings(5, 20)).totalChallenges = 1

\* C8: in either backend, once clearAllStats has completed, getAllStats
\* returns an empty map and getStats returns the zeroed default record.
C8_ClearThenEmpty ==
  [][ (lastOp.name = "clearAllStats" /\ lastOp.ok) =>
        /\ (lastOp'.name = "getAllStats" /\ lastOp'.ok) => ret'.value = <<>>
        /\ (lastOp'.name = "getStats" /\ lastOp'.ok) => ret'.value = initializeStats ]_vars

\* C9: in either backend, exportStats followed by importStats of the
\* exported string leaves getAllStats equal by value to the map before.
C9_RoundTrip ==
  [][ ( /\ lastOp.name = "exportStats" /\ lastOp.ok
        /\ lastOp'.name = "importStats" /\ lastOp'.ok
        /\ lastOp'.arg = ret.value ) =>
      VisibleMap' = VisibleMap ]_vars

\* A map of two records, one of them stored in the legacy shape, has been
\* exported and imported again.
C9_Witness ==
  /\ lastOp.name = "importStats" /\ lastOp.ok /\ ~lastOp.faulted
  /\ lastOp.arg.indent = 2
  /\ lastOp.arg.members = DB_getAllStats(VisibleMap)
  /\ Cardinality(DOMAIN VisibleMap) = 2
  /\ VisibleMap[ScenarioKey].totalChallenges > LegacyRecord.totalChallenges

ReadCalls == {"getStats", "getAllStats", "getStatsByKey", "exportStats"}

\* Every record of an object has bestAccuracy, 0 where the stored one lacks it.
AllMigrated(o) ==
  \A j \in 1..Len(o) :
    /\ ~IsLegacy(o[j][2])
    /\ (o[j][1] \in DOMAIN StoredMap /\ IsLegacy(StoredMap[o[j][1]])) =>
         o[j][2].bestAccuracy = 0

\* What the read that completed last resolved with, against the store.
ReadIsMigrated ==
  /\ (lastOp.name \in ReadCalls /\ (~env.isPWA \/ pwaManager.db = "open")) =>
       lastOp.ok
  /\ (lastOp.name = "getStats" /\ lastOp.ok) =>
       AllMigrated(<< <<generateSettingsKey(lastOp.arg), ret.value>> >>)
  /\ (lastOp.name = "getStatsByKey" /\ lastOp.ok /\ ret.kind = "stats") =>
       AllMigrated(<< <<lastOp.arg, ret.value>> >>)
  /\ (lastOp.name = "getAllStats" /\ lastOp.ok) =>
       /\ AllMigrated(ret.value)
       /\ {ret.value[j][1] : j \in 1..Len(ret.value)} = DOMAIN StoredMap
  /\ (lastOp.name = "exportStats" /\ lastOp.ok) =>
       /\ AllMigrated(ret.value.members)
       /\ {ret.value.members[j][1] : j \in 1..Len(ret.value.members)}
            = DOMAIN StoredMap

\* C10: a stored record without bestAccuracy is returned with bestAccuracy=0
\* and without an error by getStats, getAllStats, getStatsByKey and
\* exportStats of either backend, and a following saveStats computes from 0.
C10_LegacyRead ==
  [][ /\ ReadIsMigrated'
      /\ (lastOp'.name = "saveStats" /\ lastOp'.ok /\ ~lastOp'.faulted) =>
           LET key == generateSettingsKey(lastOp'.arg[1])
           IN  (key \in DOMAIN StoredMap /\ IsLegacy(StoredMap[key])) =>
                 StoredMap'[key].bestAccuracy =
                   Max(0, Accuracy(StoredMap'[key].recentAnswers)) ]_vars

\* getStatsByKey has handed out, with bestAccuracy 0, a record that is still
\* stored without the field.
C10_Witness ==
  /\ lastOp.name = "getStatsByKey" /\ lastOp.ok /\ ret.kind = "stats"
  /\ lastOp.arg \in DOMAIN StoredMap /\ IsLegacy(StoredMap[lastOp.arg])
  /\ ret.value.bestAccuracy = 0
  /\ ret.value.totalChallenges = LegacyRecord.totalChallenges

\* C13: whenever the store write performed by saveStats or importStats
\* fails (quota, permissions), the facade call fails towards its caller, in
\* the flat backend as well as in the durable one.
C13_WriteFailureSurfaces ==
  (lastOp.name \in {"saveStats", "importStats"} /\ lastOp.faulted) =>
    (~lastOp.ok /\ ret = Rejected)

\* C14: wherever a statistics read fails (the flat item is unreadable, or
\* the structured store cannot be opened or read), getStats resolves with
\* the empty default record instead of an error, in both backends.
C14_ReadFailureYieldsDefault ==
  (lastOp.name = "getStats" /\ lastOp.faulted) =>
    (lastOp.ok /\ ret = Returned("stats", initializeStats))

ImportCalls == {"importStats", "restoreFromBackup"}

\* C15: importStats or restoreFromBackup called with a payload whose parse
\* fails rejects towards the caller and leaves the stored map of both
\* backends exactly as it was before the call.
C15_MalformedImport ==
  [][ (lastOp'.name \in ImportCalls /\ lastOp'.arg.syntax # "object") =>
        /\ ~lastOp'.ok /\ ret' = Rejected
        /\ localStorage' = localStorage /\ idb' = idb ]_vars

\* restoreFromBackup was handed a malformed backup while the store held two
\* records; it rejected.
C15_Witness ==
  /\ lastOp.name = "restoreFromBackup" /\ lastOp.arg = Malformed
  /\ ~lastOp.ok /\ ret = Rejected
  /\ Cardinality(DOMAIN StoredMap) = 2

----------------------------------------------------------------------------
(* Properties of syncDataBetweenEnvironments, checked under SpecSync       *)

Synced == lastOp.name = "syncDataBetweenEnvironments"

\* The maps the two stores hand out, property order forgotten.
FlatMap == AsMap(getStatsFromStorage(localStorage))
StructuredMap == AsMap(DB_getAllStats(idb))

\* C16: when flat mode is active, the flat map is non-empty and the
\* structured store is reachable (it opens and accepts writes), the sync
\* copies the flat data: afterwards the structured store holds every flat
\* record under its fingerprint.
C16_SyncCopiesFlat ==
  [][ ( /\ Synced' /\ ~env.isPWA /\ env.hasIndexedDB
        /\ DOMAIN FlatMap # {}
        /\ lastOp'.arg.openOK /\ lastOp'.arg.putFailAt = 0 ) =>
      \A k \in DOMAIN FlatMap :
        k \in DOMAIN StructuredMap' /\ StructuredMap'[k] = FlatMap[k] ]_vars

C18_FlatSyncSwallows ==
  [][ (Synced' /\ ~env.isPWA) =>
        (lastOp'.ok /\ ret' = Void /\ localStorage' = localStorage) ]_vars

\* In flat mode, with the window now standalone, the second put of the copy
\* was rejected: the sync resolved, one record had been copied.
C18_Witness ==
  /\ Synced /\ ~env.isPWA /\ PwaNow
  /\ lastOp.ok /\ lastOp.faulted
  /\ lastOp.arg.openOK /\ lastOp.arg.putFailAt = 2
  /\ Cardinality(DOMAIN FlatMap) = 2
  /\ Cardinality(DOMAIN StructuredMap) = 1

----------------------------------------------------------------------------
(* Properties of calls in flight, checked under SpecConc                   *)

\* Caller t's saveStats has resolved.
Saved(t) == Task(t).op = "saveStats" /\ Task(t).pc = "done" /\ Task(t).ok

\* Callers a and b saved under one fingerprint, and b wrote a record
\* computed from a read that a's write had overtaken.
Overwrote(a, b) ==
  /\ a # b /\ Saved(a) /\ Saved(b)
  /\ PWA_generateSettingsKey(Task(a).settings) = PWA_generateSettingsKey(Task(b).settings)
  /\ Task(b).stale

\* C11: when two saveStats calls for one fingerprint overlap so that the
\* later write was computed from a read made before the earlier write, the
\* later write replaces the earlier one: both calls resolve, and the stored
\* record is the record both had read with one answer added, not two.
C11_LostUpdate ==
  \A a, b \in Callers :
    Overwrote(a, b) =>
      LET stored == idb[PWA_generateSettingsKey(Task(b).settings)]
      IN  /\ Task(a).cur = Task(b).cur
          /\ stored = PWA_updateStats(Task(b).cur, Task(b).isCorrect)
          /\ stored.totalChallenges = Task(a).cur.totalChallenges + 1

\* Two answers were saved for the stored legacy record of the default
\* settings, and its totalChallenges rose from 3 to 4.
C11_Witness ==
  /\ Overwrote(1, 2)
  /\ Task(1).settings = Settings(4, 20)
  /\ Task(1).cur.totalChallenges = LegacyRecord.totalChallenges
  /\ idb[generateSettingsKey(Settings(4, 20))].totalChallenges
       = LegacyRecord.totalChallenges + 1

\* C12: init is idempotent for every interleaving: on one manager instance
\* the structured adapter is constructed and its store opened at most once,
\* also when further facade calls are issued before the first init has
\* completed, and in flat mode it is never constructed.
C12_InitOnce ==
  /\ Len(mgrs) <= 1 /\ Len(dbs) <= 1
  /\ ~env.isPWA => Len(mgrs) = 0

----------------------------------------------------------------------------
(* Properties of validateSettings, checked under SpecValidate              *)

WasValidated == lastOp.name \in {"validateSettings", "loadSettingsFromStorage"}

InRange(v, lo, hi) == lo <= v /\ v <= hi

\* C19: for every input of validate (any subset of the fields, any integer
\* values) every field of the result lies in its declared range: gridSize
\* in [2,8], showTime in [100,10000], answerTime in [0,30000],
\* numActiveCells in [1, gridSize^2] for the returned gridSize,
\* targetConsecutive in [1,100].
C19_ValidatedInRange ==
  WasValidated =>
    /\ InRange(validated.gridSize, 2, 8)
    /\ InRange(validated.showTime, 100, 10000)
    /\ InRange(validated.answerTime, 0, 30000)
    /\ InRange(validated.numActiveCells, 1, validated.gridSize * validated.gridSize)
    /\ InRange(validated.targetConsecutive, 1, 100)

RangeOf(f, gridSize) ==
  CASE f = "gridSize" -> <<2, 8>>
    [] f = "showTime" -> <<100, 10000>>
    [] f = "answerTime" -> <<0, 30000>>
    [] f = "numActiveCells" -> <<1, gridSize * gridSize>>
    [] f = "targetConsecutive" -> <<1, 100>>

\* The provided value of a field is absent, zero or not a number.
AbsentZeroOrNonNumeric(settings, f) ==
  \/ f \notin DOMAIN settings
  \/ settings[f].type # "number" \/ settings[f].nan \/ settings[f].n = 0

\* C21: validate never raises and always returns all five fields as
\* in-range numbers; for each field whose provided value is absent, zero or
\* non-numeric, the result holds that field's default (gridSize 4, showTime
\* 500, answerTime 0, numActiveCells 5, targetConsecutive 20).
C21_PopulatedInRange ==
  lastOp.name = "validateSettings" =>
    \A f \in SettingsFields :
      /\ validated[f].type = "number" /\ ~validated[f].nan
      /\ ~validated.gridSize.nan =>
           InRange(validated[f].n, RangeOf(f, validated.gridSize.n)[1],
                   RangeOf(f, validated.gridSize.n)[2])
      /\ AbsentZeroOrNonNumeric(partial, f) =>
           validated[f] = JSNumber(DEFAULT_SETTINGS[f])

----------------------------------------------------------------------------
(* Further properties of the persistence layer                             *)

\* C22: getStats(settings) is never absent and never stale: it returns the
\* record currently persisted under fingerprint(settings) in the active
\* backend at the time of the call, or the zeroed default record when none
\* is stored, also after importStats, clearAllStats or another write has
\* changed the store since the previous call.
C22_GetStatsCurrent ==
  lastOp.name = "getStats" =>
    (lastOp.ok /\ ret = Returned("stats", VisibleFor(lastOp.arg)))

\* C24: environment detection is memoized once per manager instance: once
\* init has succeeded on a manager constructed in durable mode, its
\* operations run on the opened structured store, whatever the ambient
\* display mode has become since the construction.
C24_MemoizedDetection ==
  (env.isPWA /\ initialized) => Usable(pwaManager)

\* C27: a completed saveStats(settings, isCorrect) raises totalChallenges
\* of the record under fingerprint(settings) by exactly 1 in the active
\* backend, leaves the records of every other fingerprint there unchanged
\* by value, and leaves the inactive backend's store untouched.
C27_SaveAddsOne ==
  [][ (lastOp'.name = "saveStats" /\ lastOp'.ok) =>
        LET key == generateSettingsKey(lastOp'.arg[1])
            was == IF key \in DOMAIN VisibleMap
                   THEN VisibleMap[key].totalChallenges ELSE 0
        IN  /\ DOMAIN VisibleMap' = DOMAIN VisibleMap \cup {key}
            /\ VisibleMap'[key].totalChallenges = was + 1
            /\ \A k \in DOMAIN VisibleMap \ {key} : VisibleMap'[k] = VisibleMap[k]
            /\ IF env.isPWA THEN localStorage' = localStorage ELSE idb' = idb ]_vars

\* C28: in durable mode with a structured store that opens, no facade call
\* issued while an earlier init is still in flight fails with 'Database not
\* initialized' or 'PWA environment not detected': every call that has
\* completed has resolved.
C28_StartupCallsResolve ==
  env.isPWA => \A t \in Callers : Task(t).pc = "done" => Task(t).ok

\* The sum of totalChallenges over a map, and the saveStats calls resolved.
RECURSIVE SumTotals(_)
SumTotals(m) ==
  IF DOMAIN m = {} THEN 0
  ELSE LET k == CHOOSE j \in DOMAIN m : TRUE
       IN  m[k].totalChallenges + SumTotals([j \in DOMAIN m \ {k} |-> m[j]])

SavedCount == Cardinality({t \in Callers : Saved(t)})

----------------------------------------------------------------------------
(* Properties of importStats, checked under SpecImport                     *)

\* C25: recentAnswers.length <= 100 holds always: after any sequence of
\* saveStats and importStats calls with well-parsed payloads, every stored
\* record and every record returned by getStats has at most 100 entries in
\* recentAnswers.
C25_WindowBounded ==
  /\ \A k \in DOMAIN StoredMap :
       Len(StoredMap[k].recentAnswers) <= MAX_RECENT_ANSWERS
  /\ (lastOp.name = "getStats" /\ lastOp.ok) =>
       Len(ret.value.recentAnswers) <= MAX_RECENT_ANSWERS

\* The store after the first n entries of a payload have been put.
RECURSIVE PutPrefix(_, _, _)
PutPrefix(store, entries, n) ==
  IF n = 0 THEN store
  ELSE LET before == PutPrefix(store, entries, n - 1)
       IN  [k \in DOMAIN before \cup {entries[n][1]} |->
              IF k = entries[n][1] THEN entries[n][2] ELSE before[k]]

\* The call was importStats on the opened structured store with a payload
\* that parses.
ImportedStructured ==
  /\ lastOp.name = "importStats" /\ env.isPWA /\ Usable(pwaManager)
  /\ lastOp.arg.syntax = "object"

\* C26: in the structured backend importStats writes each fingerprint
\* independently in payload order: the store afterwards is the store before
\* with the first n records of the payload put, for some n; the call
\* resolves iff all were put (n is the payload's length), and when the
\* write of the k-th failed, n = k-1: the remaining ones are not written
\* and records of fingerprints outside the payload are unchanged.
C26_PartialImport ==
  [][ ImportedStructured' =>
        LET entries == JSONparse(lastOp'.arg)
        IN  \E n \in 0..Len(entries) :
              /\ idb' = PutPrefix(idb, entries, n)
              /\ lastOp'.ok <=> n = Len(entries)
              /\ \A k \in DOMAIN idb \ {entries[j][1] : j \in 1..Len(entries)} :
                   idb'[k] = idb[k] ]_vars

\* A mixed state: the import of two records failed at the second; the first
\* one is stored, the second is not, and a record saved before under a
\* fingerprint outside the payload is still there.
C26_Witness ==
  /\ ImportedStructured /\ ~lastOp.ok
  /\ Len(JSONparse(lastOp.arg)) = 2
  /\ generateSettingsKey(Settings(5, 20)) \in DOMAIN idb
  /\ idb[generateSettingsKey(Settings(5, 20))] = ImportedRecord
  /\ generateSettingsKey(Settings(6, 20)) \notin DOMAIN idb
  /\ generateSettingsKey(Settings(4, 20)) \in DOMAIN idb
  /\ idb[generateSettingsKey(Settings(4, 20))].totalChallenges
       = LegacyRecord.totalChallenges + 1

\* What importStats of a payload makes of a map in the flat backend and in
\* the structured one, as the maps the backends hand out.
FlatImport(map, jsonData) ==
  AsMap(getStatsFromStorage(saveStatsToStorage(Null, JSONparse(jsonData), TRUE)))

StructuredImport(map, jsonData) ==
  AsMap(DB_getAllStats(PutEach(map, JSONparse(jsonData), 1, 0).store))

\* C30: importStats is the same logical operation in both backends:
\* started from the same stored map and given the same well-formed payload,
\* the active backend ends with the map the other backend would end with,
\* including for fingerprints stored before but absent from the payload.
C30_ImportSameInBothBackends ==
  [][ (lastOp'.name = "importStats" /\ lastOp'.ok /\ ~lastOp'.faulted) =>
        VisibleMap' = IF env.isPWA THEN FlatImport(VisibleMap, lastOp'.arg)
                      ELSE StructuredImport(VisibleMap, lastOp'.arg) ]_vars

----------------------------------------------------------------------------
(* Properties of environment detection, checked under SpecDetect           *)

\* The combination of ambient capabilities in which durable mode is due.
DurableDue ==
  /\ hasWindow /\ displayMode \in {"standalone", "fullscreen", "minimal-ui"}
  /\ hasIndexedDB /\ hasServiceWorker

\* C23: for every combination of ambient capabilities, the detector
\* declares durable mode (storage kind structured) if and only if the
\* display mode is standalone, fullscreen or minimal-ui and the structured
\* store and the service worker are present; in every other combination,
\* a runtime without a window included, it declares flat mode.
C23_DetectorDeclares ==
  /\ lastOp.name = "isPWA" => (lastOp.ok /\ ret = Returned("boolean", DurableDue))
  /\ lastOp.name = "detectEnvironment" =>
       /\ lastOp.ok
       /\ ret.value.isPWA = DurableDue /\ ret.value.isWeb = ~DurableDue
       /\ ret.value.storageType = IF DurableDue THEN "indexeddb" ELSE "localStorage"

----------------------------------------------------------------------------
(* Further properties of the aggregator, checked under SpecAgg             *)

\* The record as an earlier release stored it, without bestAccuracy.
WithoutBest(s) == [f \in DOMAIN s \ {"bestAccuracy"} |-> s[f]]

\* C31: the two implementations of the update algorithm (gameStats.ts for
\* the flat backend, pwaStats.ts for the structured one) return identical
\* records for every input record and outcome, so the same sequence of
\* answers yields the same record in either backend.
\* The records of the two copies, each fed by its own implementation, are
\* equal in every state, whichever outcome led to it; the implementations
\* also agree on the legacy form of the records of the uniform streams.
C31_UpdatesAgree ==
  /\ stats = pstats
  /\ switches = 0 =>
       \A isCorrect \in BOOLEAN :
         updateStats(WithoutBest(stats), isCorrect)
           = PWA_updateStats(WithoutBest(stats), isCorrect)

\* More than 100 answers, a streak broken, the accuracy below its best:
\* both copies hold the same record.
C31_Witness ==
  /\ Len(answers) > MAX_RECENT_ANSWERS /\ switches = 1
  /\ stats = pstats
  /\ pstats.bestAccuracy = 100 /\ PWA_calculateAccuracy(pstats.recentAnswers) < 100
  /\ pstats.maxConsecutiveCorrect > pstats.currentConsecutiveCorrect

Min(a, b) == IF a <= b THEN a ELSE b

\* C33: for every record reachable from the empty record by update calls
\* only, recentAnswers.length equals min(totalChallenges, 100).
C33_WindowLength ==
  fromEmpty =>
    /\ Len(stats.recentAnswers) = Min(stats.totalChallenges, 100)
    /\ Len(pstats.recentAnswers) = Min(pstats.totalChallenges, 100)

\* The 101st answer has been recorded: the window stays at 100.
C33_Witness ==
  /\ fromEmpty /\ stats.totalChallenges = 101 /\ pstats.totalChallenges = 101
  /\ Len(stats.recentAnswers) = 100 /\ Len(pstats.recentAnswers) = 100

\* The number of consecutive TRUE entries at the end of seq.
RECURSIVE TrailingTrue(_)
TrailingTrue(seq) ==
  IF seq = <<>> \/ ~seq[Len(seq)] THEN 0
  ELSE 1 + TrailingTrue(SubSeq(seq, 1, Len(seq) - 1))

StreakOrdered(s) ==
  /\ s.currentConsecutiveCorrect <= s.maxConsecutiveCorrect
  /\ s.maxConsecutiveCorrect <= s.totalChallenges
  /\ s.currentConsecutiveCorrect < 100 =>
       s.currentConsecutiveCorrect = TrailingTrue(s.recentAnswers)

\* C34: for every record reachable from the empty record by update calls
\* only, currentConsecutiveCorrect <= maxConsecutiveCorrect <=
\* totalChallenges, and while currentConsecutiveCorrect is below 100 it
\* equals the number of consecutive true entries at the end of
\* recentAnswers.
C34_StreakOrdered ==
  fromEmpty => (StreakOrdered(stats) /\ StreakOrdered(pstats))

\* After more than 100 answers, wrong ones followed by a streak shorter
\* than the window: the window ends in exactly that streak.
C34_Witness ==
  /\ fromEmpty /\ Len(answers) > MAX_RECENT_ANSWERS
  /\ stats.currentConsecutiveCorrect \in 2..99
  /\ stats.currentConsecutiveCorrect = TrailingTrue(stats.recentAnswers)
  /\ stats.maxConsecutiveCorrect = stats.currentConsecutiveCorrect
  /\ stats.totalChallenges > stats.maxConsecutiveCorrect

----------------------------------------------------------------------------
(* Properties of the settings manager, checked under SpecSettings          *)

\* C32: for every combination of ambient capabilities and display mode
\* (standalone, fullscreen, minimal-ui, browser tab), the settings manager
\* and the statistics manager select the same backend kind: settings are
\* persisted to the structured store exactly when statistics are.
C32_SameBackendKind ==
  settingsManager.initialized => ((settingsManager.pwaManager # "null") <=> env.isPWA)

\* C36: settings round-trip through exactly one store: with nothing stored,
\* loadSettings returns the default record; after saveSettings(s) completes
\* for a validated record s, loadSettings on the same manager returns a
\* record equal to s; and saveSettings does not write the store of the
\* other backend.
C36_SettingsRoundTrip ==
  [][ /\ (lastOp'.name = "loadSettings" /\ lastOp'.ok
            /\ settingsItem = Null /\ settingsDB = Null) =>
           ret' = Returned("settings", DEFAULT_SETTINGS)
      /\ (lastOp'.name = "loadSettings" /\ lastOp.name = "saveSettings" /\ lastOp.ok) =>
           (lastOp'.ok /\ ret' = Returned("settings", lastOp.arg))
      /\ (lastOp'.name = "saveSettings" /\ lastOp'.ok) =>
           IF settingsManager'.pwaManager = "null"
           THEN settingsDB' = settingsDB ELSE settingsItem' = settingsItem ]_vars

----------------------------------------------------------------------------
(* Properties of the read operations, checked under SpecReads              *)

AllReadCalls == ReadCalls \cup {"getDatabaseSize", "createBackup", "getEnvironmentInfo"}

LegacyKeys == {k \in DOMAIN StoredMap : IsLegacy(StoredMap[k])}

\* C35: getStats, getAllStats, getStatsByKey, getDatabaseSize, exportStats,
\* createBackup and getEnvironmentInfo leave the persisted content of both
\* stores unchanged; a record stored without bestAccuracy stays stored
\* without it across reads, and gains the field only in a saveStats that
\* was carried out: the structured backend rewrites the record saved, the
\* flat backend the whole map.
C35_ReadsDoNotWrite ==
  [][ /\ lastOp'.name \in AllReadCalls =>
           /\ localStorage' = localStorage /\ idb' = idb
           /\ LegacyKeys' = LegacyKeys
      /\ LegacyKeys' # LegacyKeys =>
           /\ lastOp'.name = "saveStats" /\ lastOp'.ok /\ ~lastOp'.faulted
           /\ LegacyKeys' = IF env.isPWA
                            THEN LegacyKeys \ {generateSettingsKey(lastOp'.arg[1])}
                            ELSE {} ]_vars

\* getDatabaseSize has counted two records, one of them still stored
\* without bestAccuracy after a saveStats under another fingerprint.
C35_Witness ==
  /\ lastOp.name = "getDatabaseSize" /\ lastOp.ok /\ ret = Returned("size", 2)
  /\ nSaves > 0
  /\ LegacyKeys = {generateSettingsKey(Settings(4, 20))}

----------------------------------------------------------------------------
(* Properties of the game component, checked under SpecGame                *)

ButtonRounds == {"Start", "Next", "Retry"}

\* C37: in a round started by Start, Next or Retry while answerTime is 0,
\* timerExpired never becomes true, whatever rounds and settings preceded
\* that round.
C37_UnlimitedNeverExpires ==
  (round.startedBy \in ButtonRounds /\ round.answerTime = 0) => ~game.timerExpired

\* The step is the callback of the timeout of the given kind that the
\* round being played scheduled.
OwnTimer(kind) ==
  /\ gameEvent'.name = "timeout"
  /\ gameEvent'.timer[1].round = round.id
  /\ gameEvent'.timer[1].kind = kind

\* C38: within a round, the pattern is hidden by that round's own show
\* timer only and timerExpired is set by that round's own answer timer
\* only; a timeout left pending by an earlier round changes neither.
C38_OwnTimersOnly ==
  [][ (round.startedBy # "none" /\ round' = round) =>
        /\ (game.showAnswer /\ ~game'.showAnswer) => OwnTimer("show")
        /\ (~game.timerExpired /\ game'.timerExpired) => OwnTimer("answer") ]_vars

\* totalChallenges of the record stored for the settings being played.
StoredTotal ==
  LET key == generateSettingsKey(currentSettings(game))
  IN  IF key \in DOMAIN StoredMap THEN StoredMap[key].totalChallenges ELSE 0

\* C39: checkAnswer in a round that is not a retry calls onStatsUpdate once,
\* with the graded outcome, and the handler stores one more answer;
\* checkAnswer in a round started by Retry calls it zero times, stores
\* nothing and leaves consecutiveCorrect and targetAchieved as they were.
\* No other event calls it.
C39_StatsOncePerGradedAnswer ==
  [][ /\ gameEvent'.name = "Check" =>
           IF round.startedBy # "Retry"
           THEN /\ gameEvent'.calls = <<Matches(game.solution, game.userGrid)>>
                /\ StoredTotal' = StoredTotal + 1
           ELSE /\ gameEvent'.calls = <<>>
                /\ StoredMap' = StoredMap
                /\ game'.consecutiveCorrect = game.consecutiveCorrect
                /\ game'.targetAchieved = game.targetAchieved
      /\ gameEvent'.name # "Check" =>
           (gameEvent'.calls = <<>> /\ StoredMap' = StoredMap) ]_vars

\* The pattern of a round answered wrongly has been answered correctly in
\* the retry round; the one graded answer is the one stored.
C39_Witness ==
  /\ gameEvent.name = "Check" /\ round.startedBy = "Retry"
  /\ game.isFinished /\ Matches(game.solution, game.userGrid)
  /\ gameEvent.calls = <<>>
  /\ StoredTotal = 1 /\ game.consecutiveCorrect = 0

====
